---- MODULE Spec2Model ----
(***************************************************************************)
(* Trade execution engine of ai_smif_v2.1:                                 *)
(*   components/trading_execution_engine/execution_engine.py               *)
(*   components/trading_execution_engine/order_manager.py                  *)
(*   components/trading_execution_engine/trade_signal.py                   *)
(*                                                                         *)
(* The engine runs on one asyncio event loop.  Each coroutine is a task    *)
(* with a program counter; a step of the model runs one coroutine from one *)
(* suspension point (an awaited broker call or sleep) to the next, which   *)
(* is the atomicity the event loop gives the code.  The broker client is   *)
(* an external collaborator: each awaited broker call either raises or     *)
(* returns a value drawn from a small set.                                 *)
(***************************************************************************)
EXTENDS Integers, Sequences, FiniteSets, TLC

----------------------------------------------------------------------------
(* Bounds of the model *)

\* signals created over a run (enqueued or submitted directly)
MaxSignals == 1
\* orders the broker accepts over a run
MaxOrders == 3
\* failed_trades rows an earlier run left in the ledger
MaxRows == 2
\* signals waiting in the queue when the consumer and shutdown() start
MaxQueue == 2

----------------------------------------------------------------------------
(* Program constants *)

\* ExecutionEngine.max_retries
max_retries == 3
\* check_order_status: "for _ in range(10)"
MaxPolls == 10
\* CONFIG['risk']['max_order_value']
max_order_value == 50000
\* CONFIG['risk']['max_position_size_pct'] = 0.1, kept as the ratio 1/10
PositionPctNum == 1
PositionPctDen == 10
\* CONFIG['risk']['daily_loss_limit_pct'] = 0.02, kept as the ratio 2/100
LossPctNum == 2
LossPctDen == 100
\* Python's None for an optional price (prices are non-negative)
None == -1

\* account_info['portfolio_value'] values the broker may report
PortfolioValues == {100000, 1000000}
\* equity - last_equity values the broker may report after a fill
PnlValues == {0, -2000}
\* broker order statuses reported by get_order_status_async
BrokerStatuses == {"new", "filled", "canceled", "rejected"}
\* position lists get_positions_async may return (symbol, qty)
Holdings ==
  { <<[symbol |-> "AAPL", qty |-> 10]>>,
    <<[symbol |-> "AAPL", qty |-> 10], [symbol |-> "MSFT", qty |-> 20]>> }

\* the coroutines: execute_trade_signal called by the queue consumer ("submit")
\* and by a direct caller ("direct"), the consumer's loop _process_signals,
\* the recovery task, shutdown(), liquidate_all_positions / liquidate_position,
\* and the per-position tasks asyncio.gather runs
Tasks == {"submit", "recovery", "shutdown", "liquidate", "liq1", "liq2", "scheduler",
          "producer", "from_dict", "consumer", "direct"}

----------------------------------------------------------------------------
(* TradeSignal (trade_signal.py).  `timestamp` is the creation timestamp,  *)
(* modelled as the creation sequence number, so it identifies the signal.  *)

SignalKinds ==
  { [ticker |-> "AAPL", strategy_id |-> "s1", order_type |-> "market", quantity |-> 10,
     signal_type |-> "BUY", time_in_force |-> "gtc",
     price |-> 150, limit_price |-> None, stop_price |-> None],
    [ticker |-> "AAPL", strategy_id |-> "s1", order_type |-> "limit", quantity |-> 100,
     signal_type |-> "BUY", time_in_force |-> "gtc",
     price |-> 150, limit_price |-> 100, stop_price |-> None],
    [ticker |-> "AAPL", strategy_id |-> "s1", order_type |-> "stop", quantity |-> 200,
     signal_type |-> "BUY", time_in_force |-> "gtc",
     price |-> None, limit_price |-> None, stop_price |-> 100],
    [ticker |-> "AAPL", strategy_id |-> "s2", order_type |-> "market", quantity |-> 400,
     signal_type |-> "BUY", time_in_force |-> "gtc",
     price |-> 150, limit_price |-> None, stop_price |-> None],
    [ticker |-> "AAPL", strategy_id |-> "s2", order_type |-> "market", quantity |-> 5,
     signal_type |-> "BUY", time_in_force |-> "gtc",
     price |-> None, limit_price |-> None, stop_price |-> None] }

TradeSignal(k, ts) ==
  [timestamp |-> ts, ticker |-> k.ticker, signal_type |-> k.signal_type,
   strategy_id |-> k.strategy_id, order_type |-> k.order_type,
   quantity |-> k.quantity, price |-> k.price, limit_price |-> k.limit_price,
   stop_price |-> k.stop_price, time_in_force |-> k.time_in_force]

NoSignal ==
  [timestamp |-> 0, ticker |-> "", signal_type |-> "", strategy_id |-> "",
   order_type |-> "market", quantity |-> 0,
   price |-> None, limit_price |-> None, stop_price |-> None,
   time_in_force |-> "gtc"]

\* __post_init__ without the limit_price check
post_init_NoLimitCheck(a) ==
  IF a.signal_type \notin {"BUY", "SELL"} THEN "signal_type"
  ELSE IF a.order_type \notin {"market", "limit", "stop"} THEN "order_type"
  ELSE IF a.time_in_force \notin {"day", "gtc", "opg", "cls", "ioc", "fok"}
       THEN "time_in_force"
  ELSE IF a.order_type = "stop" /\ a.stop_price = None THEN "stop_price"
  ELSE "ok"

\* the checks of TradeSignal.__post_init__ in their order: the name of the
\* field whose check raises ValueError, or "ok"
post_init(a) ==
  IF a.signal_type \notin {"BUY", "SELL"} THEN "signal_type"
  ELSE IF a.order_type \notin {"market", "limit", "stop"} THEN "order_type"
  ELSE IF a.time_in_force \notin {"day", "gtc", "opg", "cls", "ioc", "fok"}
       THEN "time_in_force"
  ELSE IF a.order_type = "limit" /\ a.limit_price = None THEN "limit_price"
  ELSE IF a.order_type = "stop" /\ a.stop_price = None THEN "stop_price"
  ELSE "ok"

\* datetime.isoformat(): the timestamp as a string
isoformat(t) == <<"iso", t>>

\* datetime.fromisoformat
fromisoformat(x) == x[2]

\* float(x) of a number (numbers are modelled by their value)
float(x) == x

\* TradeSignal.to_dict: one dictionary entry per field, the timestamp as a string
to_dict(s) ==
  [ticker |-> s.ticker, signal_type |-> s.signal_type, quantity |-> s.quantity,
   strategy_id |-> s.strategy_id, timestamp |-> isoformat(s.timestamp),
   price |-> s.price, order_type |-> s.order_type,
   limit_price |-> s.limit_price, stop_price |-> s.stop_price,
   time_in_force |-> s.time_in_force]

\* the constructor arguments TradeSignal.from_dict builds from a dictionary
\* that has every key: optional prices stay None when None
from_dict(d) ==
  [ticker |-> d.ticker, signal_type |-> d.signal_type,
   quantity |-> float(d.quantity), strategy_id |-> d.strategy_id,
   timestamp |-> fromisoformat(d.timestamp),
   price |-> IF d.price # None THEN float(d.price) ELSE None,
   order_type |-> d.order_type,
   limit_price |-> IF d.limit_price # None THEN float(d.limit_price) ELSE None,
   stop_price |-> IF d.stop_price # None THEN float(d.stop_price) ELSE None,
   time_in_force |-> d.time_in_force]

----------------------------------------------------------------------------
(* Risk validation (ExecutionEngine.validate_trade_signal) *)

\* "if trade_signal.price is None and order_type == 'market': price = 0.0"
DefaultPrice(s) ==
  IF s.price = None /\ s.order_type = "market" THEN [s EXCEPT !.price = 0] ELSE s

validation_price(s) ==
  IF s.order_type = "limit" THEN s.limit_price
  ELSE IF s.order_type = "stop" THEN s.stop_price
  ELSE s.price

order_value(s) == s.quantity * validation_price(s)

\* order_value > portfolio_value * max_position_size_pct
ExceedsPositionSize(s, pv) == order_value(s) * PositionPctDen > pv * PositionPctNum

\* order_value > max_order_value
ExceedsOrderValue(s) == order_value(s) > max_order_value

\* a limit that is reached only when the loss exceeds it
DailyLossReached_Beyond(pnl, pv) == pnl * LossPctDen < -(pv * LossPctNum)

\* daily_pnl <= -(portfolio_value * daily_loss_limit_pct)
DailyLossReached(pnl, pv) == pnl * LossPctDen <= -(pv * LossPctNum)

\* validate_trade_signal without the max_order_value check
validate_trade_signal_NoOrderCap(s, pv, pnl) ==
  IF ExceedsPositionSize(s, pv) THEN "position"
  ELSE IF DailyLossReached(pnl, pv) THEN "daily_loss"
  ELSE "ok"

\* The reason validate_trade_signal returns False, or "ok" when it returns True;
\* s is the signal after DefaultPrice, pv the reported portfolio value.
validate_trade_signal(s, pv, pnl) ==
  IF ExceedsPositionSize(s, pv) THEN "position"
  ELSE IF ExceedsOrderValue(s) THEN "order_value"
  ELSE IF DailyLossReached(pnl, pv) THEN "daily_loss"
  ELSE "ok"

----------------------------------------------------------------------------
(* Order ledger (order_manager.py) *)

NoMsg == ""

\* OrderManager.log_failed_trade: INSERT with status 'pending', retry_count default 0
log_failed_trade(ft, s, msg) ==
  Append(ft, [trade_signal |-> to_dict(s), error_message |-> msg,
              retry_count |-> 0, status |-> "pending"])

\* update_failed_trade_status storing the status it is given in every case
update_failed_trade_status_StoresRetry(ft, id, status, msg) ==
  IF status = "retry"
  THEN [ft EXCEPT ![id].retry_count = @ + 1, ![id].status = status,
                  ![id].error_message = IF msg # NoMsg THEN msg ELSE @]
  ELSE [ft EXCEPT ![id].status = status]

\* OrderManager.update_failed_trade_status
update_failed_trade_status(ft, id, status, msg) ==
  IF status = "retry"
  THEN [ft EXCEPT ![id].retry_count = @ + 1,
                  ![id].error_message = IF msg # NoMsg THEN msg ELSE @]
  ELSE [ft EXCEPT ![id].status = status]

\* get_pending_failed_trades selecting on retry_count alone
get_pending_failed_trades_AnyStatus(ft, max) ==
  LET ids == SelectSeq([i \in 1..Len(ft) |-> i], LAMBDA i : ft[i].retry_count < max)
  IN [k \in 1..Len(ids) |->
        [id |-> ids[k], trade_signal |-> ft[ids[k]].trade_signal,
         error_message |-> ft[ids[k]].error_message,
         retry_count |-> ft[ids[k]].retry_count]]

\* OrderManager.get_pending_failed_trades: rows (id, trade_signal, error_message,
\* retry_count) with status 'pending' and retry_count < max, oldest first
get_pending_failed_trades(ft, max) ==
  LET ids == SelectSeq([i \in 1..Len(ft) |-> i],
                       LAMBDA i : ft[i].status = "pending" /\ ft[i].retry_count < max)
  IN [k \in 1..Len(ids) |->
        [id |-> ids[k], trade_signal |-> ft[ids[k]].trade_signal,
         error_message |-> ft[ids[k]].error_message,
         retry_count |-> ft[ids[k]].retry_count]]

\* OrderManager.add_order: one orders row and one execution_metrics row
\* (success defaults to 1) under the broker's order id
add_order_row(id, s, status) ==
  [order_id |-> id, strategy_id |-> s.strategy_id, for_signal |-> s.timestamp,
   status |-> status]

add_metrics_row(id) == [order_id |-> id, success |-> 1]

\* OrderManager.update_order: the orders row takes the polled status
update_order(os, id, status) == [os EXCEPT ![id].status = status]

\* OrderManager.update_order: success = 1 on 'filled', 0 on 'canceled'/'rejected'
update_metrics(ms, id, status) ==
  IF status = "filled" THEN [ms EXCEPT ![id].success = 1]
  ELSE IF status \in {"canceled", "rejected"} THEN [ms EXCEPT ![id].success = 0]
  ELSE ms

----------------------------------------------------------------------------
(* Engine state *)

Strategies == {"s1", "s2", "liquidation", "liquidation_recovery"}

\* _active_orders (execution_engine.py:44) is a dict that cleanup iterates over
\* while other coroutines change it, so it is kept the way CPython keeps a dict:
\* one slot per inserted key, in insertion order; a deleted key leaves its slot
\* behind, empty, and clear() starts a new table.  (A table is rebuilt without
\* its empty slots when a sixth key is inserted; MaxOrders keeps a table below
\* that.)
EmptySlot == [key |-> "<dummy>", oid |-> 0]

\* the dict after __init__ and after clear()
NoActiveOrders == <<>>

\* the slot that holds key s (0: none)
SlotOf(act, s) ==
  IF \E i \in DOMAIN act : act[i].key = s
  THEN CHOOSE i \in DOMAIN act : act[i].key = s
  ELSE 0

\* _active_orders.get(s), with 0 for None
active_get(act, s) == IF SlotOf(act, s) = 0 THEN 0 ELSE act[SlotOf(act, s)].oid

\* _active_orders[s] = id
active_set(act, s, id) ==
  IF SlotOf(act, s) = 0 THEN Append(act, [key |-> s, oid |-> id])
  ELSE [act EXCEPT ![SlotOf(act, s)].oid = id]

\* _active_orders.pop(s, None)
active_pop(act, s) ==
  IF SlotOf(act, s) = 0 THEN act ELSE [act EXCEPT ![SlotOf(act, s)] = EmptySlot]

\* the keys of the dict
ActiveStrategies(act) == {act[i].key : i \in DOMAIN act} \ {EmptySlot.key}

\* the dict iterator's search for its next item: the first used slot after
\* slot pos (0: none)
NextSlot(act, pos) ==
  LET later == {i \in DOMAIN act : i > pos /\ act[i] # EmptySlot}
  IN IF later = {} THEN 0 ELSE CHOOSE i \in later : \A j \in later : i <= j

\* statuses of the order dictionary returned by place_order_async
PlaceStatuses == {"new", "filled"}

MsgMarketClosed == "Market closed"
MsgValidation == "Trade signal validation failed"
MsgRecoveryValidation == "Trade signal validation failed during recovery"
MsgShutdown == "Trade signal not processed due to shutdown"
\* str(e) of an error raised by place_order_async / get_order_status_async
MsgPlace == "place_order_async error"
MsgStatus == "get_order_status_async error"

VARIABLES
  env,                \* what the producers and the broker client of this run can do:
                      \* the signals offered and the values the broker calls return
  signal_queue,       \* ExecutionEngine.signal_queue (FIFO of TradeSignal)
  failed_trades,      \* table failed_trades; the row id is the index
  orders,             \* table orders; the order id is the index
  execution_metrics,  \* table execution_metrics, one row per order id
  active_orders,      \* ExecutionEngine._active_orders: strategy_id -> order id, 0 = no entry
  daily_pnl,          \* ExecutionEngine.daily_pnl
  clientClosed,       \* the broker client session was closed by shutdown()
  created,            \* number of TradeSignals created so far
  recovery_list,      \* rows fetched by the running recovery pass, not yet attempted
  stillQueued,        \* timestamps of the signals that were queued when shutdown() was called
                      \* and have not been taken by the consumer since
  loc                 \* per coroutine: program counter and local variables

vars == <<env, signal_queue, failed_trades, orders, execution_metrics, active_orders,
          daily_pnl, clientClosed, created, recovery_list, stillQueued, loc>>

\* Locals of a coroutine.  pc names the awaited call the coroutine is suspended at.
\*   sig, attempt, polls, oid, row, rc: the code's local variables
\*   cont: what the caller of handle_failed_trade does when it returns
\*   size, pos, left: the iterator of cleanup's loop over _active_orders.items():
\*         the dict's size when the loop started, the slot of the item it gave
\*         last, the number of items it may still give
\*   via: which entry point runs ("queue", "direct", "recovery", "shutdown")
\*   gate: what is_market_open() returned for this signal ("none" when never asked)
\*   vres: result of validate_trade_signal;  pv: the portfolio value it saw (kept
\*         until the first place_order_async call)
\*   places, oks: place_order_async calls made / orders returned (= add_order calls)
\*   fails: place_order calls that raised (place_order_async or the status check)
\*   relapse: place_order_async raised after it had returned an order for this signal
\*   timedout: check_order_status ran out of polls with the order not terminal
\*   cancel_id: the order id this coroutine passed to cancel_order_async (0: none)
\*   logged: log_failed_trade calls made;  result: how the call ended;  err: last error
\*   tracked: the order ids _active_orders held when shutdown() was called
\*   asked: the order ids cleanup's final status update passed to get_order_status_async
Idle ==
  [pc |-> "idle", sig |-> NoSignal, via |-> "none", attempt |-> 0, polls |-> 0,
   oid |-> 0, row |-> 0, rc |-> 0, cont |-> "none", size |-> 0, pos |-> 0, left |-> 0,
   gate |-> "none", vres |-> "none", pv |-> 0, places |-> 0, oks |-> 0,
   fails |-> 0, relapse |-> FALSE, cancel_id |-> 0, timedout |-> FALSE,
   logged |-> 0, result |-> "none", err |-> NoMsg, tracked |-> {}, asked |-> {}]

\* self.stop_event, which run_recovery and _process_signals read in their loop
\* tests (execution_engine.py:67, 135).  No statement of the engine assigns the
\* attribute (__init__, 29-46) and none sets an event: on the engine as it is
\* constructed the attribute is "absent" and reading it raises AttributeError.
\* "unset" is the engine of an application that has assigned a threading.Event
\* to engine.stop_event itself; the queue consumer runs on such an engine only.
StopEvents == {"absent", "unset"}

\* any producer, any broker answer
FullEnv ==
  [kinds |-> SignalKinds, portfolio_values |-> PortfolioValues,
   place_statuses |-> PlaceStatuses, order_statuses |-> BrokerStatuses,
   pnl_values |-> PnlValues, positions |-> Holdings, stop_event |-> "absent"]

\* the environments of e: the engine as constructed, and the engine to which
\* the application has assigned a stop_event
Applications(e) == {[e EXCEPT !.stop_event = v] : v \in StopEvents}

\* the engine after __init__ (execution_engine.py:29-46), ledger tables empty
Constructed ==
  /\ signal_queue = <<>>
  /\ failed_trades = <<>>
  /\ orders = <<>>
  /\ execution_metrics = <<>>
  /\ active_orders = NoActiveOrders
  /\ daily_pnl = 0
  /\ clientClosed = FALSE
  /\ created = 0
  /\ recovery_list = <<>>
  /\ stillQueued = {}
  /\ loc = [t \in Tasks |-> Idle]

Init ==
  /\ env \in Applications(FullEnv)
  /\ Constructed

\* the coroutine has returned: its frame (loop indices, order id) is gone, what
\* is kept is what it did
Done(l) ==
  [l EXCEPT !.pc = "done", !.attempt = 0, !.polls = 0, !.oid = 0, !.cont = "none"]

----------------------------------------------------------------------------
(* handle_failed_trade (execution_engine.py:146-169) *)

\* a handle_failed_trade that ignores existing_trade_id and always inserts
HandleLedger_AlwaysLogs(ft, s, msg, id) == log_failed_trade(ft, s, msg)

\* the ledger write: update the existing row with 'retry', or insert a new row
HandleLedger(ft, s, msg, id) ==
  IF id # 0 THEN update_failed_trade_status(ft, id, "retry", msg)
  ELSE log_failed_trade(ft, s, msg)

\* Coroutine t, with locals l, calls handle_failed_trade(l.sig, msg, id).
\* cont = "reraise": the caller re-raises into execute_trade_signal's except
\* clause, which calls handle_failed_trade(l.sig, msg) once more; "return": done.
\* Sets failed_trades' and loc'.  When the strategy has a tracked order the
\* coroutine suspends in cancel_order_async.
\* frames is loc with what the caller has already done to other coroutines' locals.
handle_failed_trade_from(frames, t, l, msg, id, cont) ==
  LET ft1 == HandleLedger(failed_trades, l.sig, msg, id)
      n1  == IF id = 0 THEN 1 ELSE 0
  IN IF active_get(active_orders, l.sig.strategy_id) # 0
     THEN /\ failed_trades' = ft1
          /\ loc' = [frames EXCEPT ![t] = [l EXCEPT !.pc = "cancel", !.cont = cont,
                                                    !.err = msg, !.logged = @ + n1,
                                                    !.cancel_id =
                                                       active_get(active_orders,
                                                                  l.sig.strategy_id)]]
     ELSE IF cont = "reraise"
     THEN /\ failed_trades' = HandleLedger(ft1, l.sig, msg, 0)
          /\ loc' = [frames EXCEPT ![t] = Done([l EXCEPT !.err = msg, !.logged = @ + n1 + 1])]
     ELSE /\ failed_trades' = ft1
          /\ loc' = [frames EXCEPT ![t] = Done([l EXCEPT !.err = msg, !.logged = @ + n1])]

handle_failed_trade(t, l, msg, id, cont) ==
  handle_failed_trade_from(loc, t, l, msg, id, cont)

\* cancel_order_async has returned or raised (the error is only logged); the
\* finally clause pops the strategy's entry, then the caller continues.
Cancel(t) ==
  LET l == loc[t] IN
  /\ t # "shutdown"
  /\ l.pc = "cancel"
  /\ active_orders' = active_pop(active_orders, l.sig.strategy_id)
  /\ IF l.cont = "reraise"
     THEN /\ failed_trades' = HandleLedger(failed_trades, l.sig, l.err, 0)
          /\ loc' = [loc EXCEPT ![t] = Done([l EXCEPT !.logged = @ + 1])]
     ELSE /\ failed_trades' = failed_trades
          /\ loc' = [loc EXCEPT ![t] = Done(l)]
  /\ UNCHANGED <<env, signal_queue, orders, execution_metrics, daily_pnl,
                 clientClosed, created, recovery_list, stillQueued>>

----------------------------------------------------------------------------
(* Producers *)

\* constructor arguments a caller can pass to TradeSignal(...): the dataclass
\* does not restrict them, __post_init__ checks them
RawSignals ==
  [ticker : {"AAPL"}, signal_type : {"BUY", "SELL", "HOLD"}, quantity : {10},
   strategy_id : {"s1"}, timestamp : {1}, price : {None, 150},
   order_type : {"market", "limit", "stop", "trailing_stop"},
   limit_price : {None, 100}, stop_price : {None, 100},
   time_in_force : {"gtc", "day", "gtd"}]

\* the frame of a call TradeSignal(**a): sig holds the arguments, result tells
\* whether __post_init__ returned ("constructed") or raised ("ValueError", err
\* naming the field)
Constructing(a, how) ==
  [Idle EXCEPT !.pc = "done", !.via = how, !.sig = a,
               !.result = IF post_init(a) = "ok" THEN "constructed" ELSE "ValueError",
               !.err = post_init(a)]

\* a producer constructs a TradeSignal (trade_signal.py:8-40)
Construct ==
  /\ loc["producer"].pc = "idle"
  /\ \E a \in RawSignals :
       loc' = [loc EXCEPT !["producer"] = Constructing(a, "init")]
  /\ UNCHANGED <<env, signal_queue, failed_trades, orders, execution_metrics,
                 active_orders, daily_pnl, clientClosed, created, recovery_list,
                 stillQueued>>

\* TradeSignal.from_dict (trade_signal.py:59-79) on the dictionary to_dict gives
\* for the producer's arguments (for a constructed signal: its serialized form)
FromDict ==
  /\ loc["producer"].pc = "done"
  /\ loc["from_dict"].pc = "idle"
  /\ loc' = [loc EXCEPT !["from_dict"] =
              Constructing(from_dict(to_dict(loc["producer"].sig)), "from_dict")]
  /\ UNCHANGED <<env, signal_queue, failed_trades, orders, execution_metrics,
                 active_orders, daily_pnl, clientClosed, created, recovery_list,
                 stillQueued>>

\* add_trade_signal (execution_engine.py:205-208)
add_trade_signal ==
  /\ created < MaxSignals
  /\ \E k \in env.kinds :
       signal_queue' = Append(signal_queue, TradeSignal(k, created + 1))
  /\ created' = created + 1
  /\ UNCHANGED <<env, failed_trades, orders, execution_metrics, active_orders, daily_pnl,
                 clientClosed, recovery_list, stillQueued, loc>>

----------------------------------------------------------------------------
(* execute_trade_signal (execution_engine.py:218-233) *)

\* is_market_open (execution_engine.py:210-216) compares the wall clock with the
\* session 09:30-16:00; open is what it returns when the call is made.
\* The market-hours gate of execute_trade_signal, up to the first suspension point.
\* t is the coroutine that runs the call; frames is loc with what the caller
\* has already done to its own locals.
execute_trade_signal(frames, t, s, via, open) ==
  LET l == [Idle EXCEPT !.sig = s, !.via = via,
                        !.gate = IF open THEN "open" ELSE "closed"]
  IN IF ~open
     THEN handle_failed_trade_from(frames, t, [l EXCEPT !.result = "rejected"],
                                   MsgMarketClosed, 0, "return")
     ELSE /\ loc' = [frames EXCEPT ![t] = [l EXCEPT !.pc = "validate"]]
          /\ failed_trades' = failed_trades

\* a consumer that takes the newest signal
signal_queue_get_Newest(q) == q[Len(q)]

\* signal_queue.get() on a queue.Queue: the oldest element
signal_queue_get(q) == Head(q)

\* str(e) of the AttributeError of run_recovery and _process_signals
MsgAttribute == "'ExecutionEngine' object has no attribute 'stop_event'"

\* add_trade_signal(None): queue.Queue takes any object
add_none ==
  /\ Len(signal_queue) < MaxQueue
  /\ \A i \in DOMAIN signal_queue : signal_queue[i] # NoSignal
  /\ signal_queue' = Append(signal_queue, NoSignal)
  /\ UNCHANGED <<env, failed_trades, orders, execution_metrics, active_orders, daily_pnl,
                 clientClosed, created, recovery_list, stillQueued, loc>>

\* _process_signals (execution_engine.py:133-144), the coroutine start() runs on
\* the loop, from its start to its first suspension point: the loop test reads
\* self.stop_event; either it raises and the coroutine ends with the error, or
\* the coroutine suspends in run_in_executor(None, self.signal_queue.get)
process_signals ==
  /\ loc["consumer"].pc = "idle"
  /\ loc' = [loc EXCEPT !["consumer"] =
                IF env.stop_event = "absent"
                THEN Done([Idle EXCEPT !.via = "consumer", !.result = "raised",
                                       !.err = MsgAttribute])
                ELSE [Idle EXCEPT !.pc = "get", !.via = "consumer"]]
  /\ UNCHANGED <<env, signal_queue, failed_trades, orders, execution_metrics,
                 active_orders, daily_pnl, clientClosed, created, recovery_list,
                 stillQueued>>

\* the consumer is inside "await self.execute_trade_signal(trade_signal)"
\* (execution_engine.py:140)
InExecute == loc["submit"].pc \notin {"idle", "done"}

\* signal_queue.get returns in the executor thread: the item has left the
\* queue, the consumer coroutine has not resumed yet (execution_engine.py:137)
Dequeue ==
  /\ loc["consumer"].pc = "get"
  /\ ~InExecute
  /\ signal_queue # <<>>
  /\ signal_queue' = Tail(signal_queue)
  /\ stillQueued' = stillQueued \ {signal_queue_get(signal_queue).timestamp}
  /\ loc' = [loc EXCEPT !["consumer"] =
              [@ EXCEPT !.pc = "got", !.sig = signal_queue_get(signal_queue)]]
  /\ UNCHANGED <<env, failed_trades, orders, execution_metrics, active_orders,
                 daily_pnl, clientClosed, created, recovery_list>>

\* the consumer back in run_in_executor after the loop test (the event it read
\* at its start is never set by the engine)
Waiting(l) == [l EXCEPT !.pc = "get", !.sig = NoSignal]

\* _process_signals resumes with the item: None is skipped, a signal goes to
\* execute_trade_signal, which runs up to its first suspension point.  The
\* except clause of the loop (141-144) has nothing to catch: execute_trade_signal
\* (226-233) and handle_failed_trade (168-169) catch every Exception themselves.
ProcessSignal ==
  /\ loc["consumer"].pc = "got"
  /\ IF loc["consumer"].sig = NoSignal
     THEN /\ loc' = [loc EXCEPT !["consumer"] = Waiting(@)]
          /\ failed_trades' = failed_trades
     ELSE \E open \in BOOLEAN :
            execute_trade_signal([loc EXCEPT !["consumer"] = Waiting(@)], "submit",
                                 loc["consumer"].sig, "queue", open)
  /\ UNCHANGED <<env, signal_queue, orders, execution_metrics, active_orders, daily_pnl,
                 clientClosed, created, recovery_list, stillQueued>>

\* a direct caller awaits execute_trade_signal with a fresh signal, whatever the
\* consumer is doing (direct calls are taken one at a time)
SubmitDirect ==
  /\ loc["direct"].pc \in {"idle", "done"}
  /\ created < MaxSignals
  /\ created' = created + 1
  /\ \E k \in env.kinds, open \in BOOLEAN :
       execute_trade_signal(loc, "direct", TradeSignal(k, created + 1), "direct", open)
  /\ UNCHANGED <<env, signal_queue, orders, execution_metrics, active_orders, daily_pnl,
                 clientClosed, recovery_list, stillQueued>>

----------------------------------------------------------------------------
(* validate -> place -> poll pipeline, shared by execute_trade_signal and  *)
(* _recover_single_failed_trade                                            *)

\* the coroutines that run execute_trade_signal
Submitters == {"submit", "direct"}

Workers == Submitters \cup {"recovery"}

\* validate_trade_signal returned False: the caller routes to the failure path
\* (execute_trade_signal:227-229, _recover_single_failed_trade:111-116)
Rejected(t, l) ==
  IF t = "recovery"
  THEN handle_failed_trade(t, [l EXCEPT !.result = "rejected"],
                           MsgRecoveryValidation, l.row, "return")
  ELSE handle_failed_trade(t, [l EXCEPT !.result = "rejected"],
                           MsgValidation, 0, "return")

\* get_account_info_async raised inside validate_trade_signal: it returns False
ValidateError(t) ==
  LET l == loc[t] IN
  /\ l.pc = "validate"
  /\ Rejected(t, [l EXCEPT !.vres = "error"])
  /\ UNCHANGED <<env, signal_queue, orders, execution_metrics, active_orders, daily_pnl,
                 clientClosed, created, recovery_list, stillQueued>>

\* get_account_info_async returned: the risk checks of validate_trade_signal,
\* then (when it passes) the first iteration of execute_trade_with_recovery
Validate(t) ==
  LET l == loc[t] IN
  /\ l.pc = "validate"
  /\ ~clientClosed
  /\ \E pv \in env.portfolio_values :
       LET s1 == DefaultPrice(l.sig)
           r  == validate_trade_signal(s1, pv, daily_pnl)
           l1 == [l EXCEPT !.sig = s1, !.vres = r, !.pv = pv]
       IN IF r = "ok"
          THEN /\ loc' = [loc EXCEPT ![t] = [l1 EXCEPT !.pc = "place", !.attempt = 0]]
               /\ failed_trades' = failed_trades
          ELSE Rejected(t, l1)
  /\ UNCHANGED <<env, signal_queue, orders, execution_metrics, active_orders, daily_pnl,
                 clientClosed, created, recovery_list, stillQueued>>

\* a retry loop that runs one iteration more
LastAttempt_OneMore(l) == l.attempt = max_retries

\* "if attempt == self.max_retries - 1" (execution_engine.py:242)
LastAttempt(l) == l.attempt = max_retries - 1

\* place_order raised in iteration l.attempt of execute_trade_with_recovery
\* (execution_engine.py:241-248), and what the caller does with a re-raised error
\* (execute_trade_signal:231-233, _recover_single_failed_trade:117-127)
PlaceFailed(t, l0, msg) ==
  LET l == [l0 EXCEPT !.fails = @ + 1] IN
  IF ~LastAttempt(l)
  THEN /\ loc' = [loc EXCEPT ![t] = [l EXCEPT !.pc = "place", !.attempt = @ + 1,
                                              !.err = msg]]
       /\ failed_trades' = failed_trades
  ELSE IF l.via = "liquidation"
  THEN \* the error goes to asyncio.gather / liquidate_position, not to execute_trade_signal
       handle_failed_trade(t, [l EXCEPT !.result = "raised"], msg, 0, "return")
  ELSE IF t # "recovery"
  THEN handle_failed_trade(t, [l EXCEPT !.result = "raised"], msg, 0, "reraise")
  ELSE IF l.rc + 1 >= max_retries
  THEN /\ failed_trades' = update_failed_trade_status(failed_trades, l.row, "failed", NoMsg)
       /\ loc' = [loc EXCEPT ![t] = Done([l EXCEPT !.result = "raised", !.err = msg])]
  ELSE handle_failed_trade(t, [l EXCEPT !.result = "raised"], msg, l.row, "return")

\* place_order returned: execute_trade_with_recovery returns True
\* (_recover_single_failed_trade:109 then marks the row 'resolved')
PlaceReturned(t, l) ==
  /\ loc' = [loc EXCEPT ![t] = Done([l EXCEPT !.result = "success"])]
  /\ failed_trades' =
       IF t = "recovery"
       THEN update_failed_trade_status(failed_trades, l.row, "resolved", NoMsg)
       ELSE failed_trades

\* place_order_async raised
PlaceError(t) ==
  LET l == loc[t] IN
  /\ l.pc = "place"
  /\ PlaceFailed(t, [l EXCEPT !.places = @ + 1, !.pv = 0,
                                 !.relapse = @ \/ l.oks > 0], MsgPlace)
  /\ UNCHANGED <<env, signal_queue, orders, execution_metrics, active_orders, daily_pnl,
                 clientClosed, created, recovery_list, stillQueued>>

\* place_order_async returned an order: add_order, track it, start polling
\* (place_order, execution_engine.py:273-283)
Place(t) ==
  LET l == loc[t]
      id == Len(orders) + 1
  IN
  /\ l.pc = "place"
  /\ ~clientClosed
  /\ Len(orders) < MaxOrders
  /\ \E st \in env.place_statuses :
       /\ orders' = Append(orders, add_order_row(id, l.sig, st))
       /\ execution_metrics' = Append(execution_metrics, add_metrics_row(id))
  /\ active_orders' = active_set(active_orders, l.sig.strategy_id, id)
  /\ loc' = [loc EXCEPT ![t] = [l EXCEPT !.pc = "poll", !.places = @ + 1,
                                         !.oks = @ + 1, !.oid = id, !.polls = 0,
                                         !.pv = 0]]
  /\ UNCHANGED <<env, signal_queue, failed_trades, daily_pnl, clientClosed,
                 created, recovery_list, stillQueued>>

\* get_order_status_async raised: check_order_status and place_order re-raise
PollError(t) ==
  LET l == loc[t] IN
  /\ l.pc = "poll"
  /\ l.polls < MaxPolls
  /\ PlaceFailed(t, l, MsgStatus)
  /\ UNCHANGED <<env, signal_queue, orders, execution_metrics, active_orders, daily_pnl,
                 clientClosed, created, recovery_list, stillQueued>>

\* check_order_status resumes in its loop (execution_engine.py:293-309).
\* Before the tenth answer it resumes from get_order_status_async with a status:
\* update_order, then update_daily_pnl for 'filled', return for 'canceled' or
\* 'rejected', otherwise asyncio.sleep(5) and the next call.  After the tenth
\* non-terminal answer it resumes from the last asyncio.sleep(5): the for-else
\* logs the timeout and check_order_status returns.
Poll(t) ==
  LET l == loc[t] IN
  /\ l.pc = "poll"
  /\ IF l.polls = MaxPolls
     THEN /\ PlaceReturned(t, [l EXCEPT !.timedout = TRUE])
          /\ UNCHANGED <<orders, execution_metrics>>
     ELSE /\ ~clientClosed
          /\ \E st \in env.order_statuses :
               /\ orders' = update_order(orders, l.oid, st)
               /\ execution_metrics' = update_metrics(execution_metrics, l.oid, st)
               /\ IF st = "filled"
                  THEN /\ loc' = [loc EXCEPT ![t] = [l EXCEPT !.pc = "pnl"]]
                       /\ failed_trades' = failed_trades
                  ELSE IF st \in {"canceled", "rejected"}
                  THEN PlaceReturned(t, l)
                  ELSE /\ loc' = [loc EXCEPT ![t] = [l EXCEPT !.polls = @ + 1]]
                       /\ failed_trades' = failed_trades
  /\ UNCHANGED <<env, signal_queue, active_orders, daily_pnl, clientClosed,
                 created, recovery_list, stillQueued>>

\* update_daily_pnl: get_account_info_async raised, the error is only logged
PnlError(t) ==
  LET l == loc[t] IN
  /\ l.pc = "pnl"
  /\ PlaceReturned(t, l)
  /\ UNCHANGED <<env, signal_queue, orders, execution_metrics, active_orders, daily_pnl,
                 clientClosed, created, recovery_list, stillQueued>>

\* update_daily_pnl: daily_pnl = equity - last_equity
Pnl(t) ==
  LET l == loc[t] IN
  /\ l.pc = "pnl"
  /\ ~clientClosed
  /\ \E d \in env.pnl_values : daily_pnl' = d
  /\ PlaceReturned(t, l)
  /\ UNCHANGED <<env, signal_queue, orders, execution_metrics, active_orders,
                 clientClosed, created, recovery_list, stillQueued>>

----------------------------------------------------------------------------
(* Recovery task (execution_engine.py:64-130) *)

\* a run_recovery whose loop test finds an event that nothing sets (as it would
\* after "self.stop_event = threading.Event()" in __init__)
run_recovery_EventCreated ==
  /\ loc["scheduler"].pc = "idle"
  /\ loc' = [loc EXCEPT !["scheduler"] = [Idle EXCEPT !.pc = "sleep", !.via = "scheduler"]]
  /\ UNCHANGED <<env, signal_queue, failed_trades, orders, execution_metrics,
                 active_orders, daily_pnl, clientClosed, created, recovery_list,
                 stillQueued>>

\* run_recovery (execution_engine.py:66-76), the coroutine _start_recovery_task
\* hands to the loop, from its start to its first suspension point: either the
\* loop test raises and the coroutine ends with the error, or it suspends in
\* asyncio.sleep(interval)
run_recovery ==
  /\ loc["scheduler"].pc = "idle"
  /\ loc' = [loc EXCEPT !["scheduler"] =
                IF env.stop_event = "absent"
                THEN Done([Idle EXCEPT !.via = "scheduler", !.result = "raised",
                                       !.err = MsgAttribute])
                ELSE [Idle EXCEPT !.pc = "sleep", !.via = "scheduler"]]
  /\ UNCHANGED <<env, signal_queue, failed_trades, orders, execution_metrics,
                 active_orders, daily_pnl, clientClosed, created, recovery_list,
                 stillQueued>>

\* who can call _recover_failed_trades: a direct caller, and run_recovery when
\* its sleep is over
PassStarters ==
  {"direct"} \cup (IF loc["scheduler"].pc = "sleep" THEN {"run_recovery"} ELSE {})

\* the scheduler's locals after it started a pass: result records whether
\* shutdown() had already returned ("late") or not ("pass")
SchedulerPass(l) ==
  [l EXCEPT !.result = IF loc["shutdown"].pc = "done" THEN "late"
                       ELSE IF @ = "late" THEN @ ELSE "pass"]

\* _recover_failed_trades: a pass starts by fetching the recoverable rows
RecoveryPass ==
  /\ loc["recovery"].pc \in {"idle", "done"}
  /\ recovery_list = <<>>
  /\ get_pending_failed_trades(failed_trades, max_retries) # <<>>
  /\ recovery_list' = get_pending_failed_trades(failed_trades, max_retries)
  /\ \E by \in PassStarters :
       loc' = IF by = "run_recovery"
              THEN [loc EXCEPT !["scheduler"] = SchedulerPass(@)]
              ELSE loc
  /\ UNCHANGED <<env, signal_queue, failed_trades, orders, execution_metrics, active_orders,
                 daily_pnl, clientClosed, created, stillQueued>>

\* str(e) of the ValueError datetime.fromisoformat raises
MsgDecode == "Invalid isoformat string"

\* a stored signal whose timestamp text is no longer what isoformat wrote (the
\* ledger file was edited or damaged between two runs)
Garbled(d) == [d EXCEPT !.timestamp = <<"garbled", @[2]>>]

\* json.loads and TradeSignal.from_dict (execution_engine.py:101-102) return a
\* signal: datetime.fromisoformat accepts only text in ISO format
Decodes(d) == d.timestamp[1] = "iso"

\* _recover_single_failed_trade on the next fetched row, up to the backoff sleep
RecoverNext ==
  /\ loc["recovery"].pc \in {"idle", "done"}
  /\ recovery_list # <<>>
  /\ Decodes(Head(recovery_list).trade_signal)
  /\ LET ti == Head(recovery_list) IN
       loc' = [loc EXCEPT !["recovery"] =
                 [Idle EXCEPT !.pc = "validate", !.via = "recovery",
                              !.sig = from_dict(ti.trade_signal),
                              !.row = ti.id, !.rc = ti.retry_count]]
  /\ recovery_list' = Tail(recovery_list)
  /\ UNCHANGED <<env, signal_queue, failed_trades, orders, execution_metrics, active_orders,
                 daily_pnl, clientClosed, created, stillQueued>>

\* _recover_single_failed_trade on a row whose signal cannot be decoded:
\* from_dict raises before the first await, the except branch (117-127) marks the
\* row 'failed' when retry_count + 1 >= max_retries, and otherwise calls
\* handle_failed_trade(None, str(e), trade_id), which writes 'retry' and then
\* fails on None.strategy_id (execution_engine.py:159); that error is only logged
RecoverUndecodable ==
  /\ loc["recovery"].pc \in {"idle", "done"}
  /\ recovery_list # <<>>
  /\ ~Decodes(Head(recovery_list).trade_signal)
  /\ LET ti == Head(recovery_list) IN
       /\ failed_trades' =
            IF ti.retry_count + 1 >= max_retries
            THEN update_failed_trade_status(failed_trades, ti.id, "failed", NoMsg)
            ELSE HandleLedger(failed_trades, NoSignal, MsgDecode, ti.id)
       /\ loc' = [loc EXCEPT !["recovery"] =
                   Done([Idle EXCEPT !.via = "recovery", !.row = ti.id,
                                     !.rc = ti.retry_count, !.result = "raised",
                                     !.err = MsgDecode])]
  /\ recovery_list' = Tail(recovery_list)
  /\ UNCHANGED <<env, signal_queue, orders, execution_metrics, active_orders,
                 daily_pnl, clientClosed, created, stillQueued>>

\* str(e) of the sqlite3.Error a ledger write re-raises
MsgLedger == "sqlite3 error"

\* the last attempt of a recovered record with retry_count + 1 >= max_retries
\* failed (place_order_async or get_order_status_async raised) and, in the
\* except branch of _recover_single_failed_trade, update_failed_trade_status(
\* trade_id, 'failed') raised as well: the error leaves _recover_single_failed_trade
\* and ends the loop of _recover_failed_trades, whose except clause logs it
MarkFailedError ==
  LET l == loc["recovery"] IN
  /\ l.pc \in {"place", "poll"}
  /\ l.polls < MaxPolls
  /\ LastAttempt(l)
  /\ l.rc + 1 >= max_retries
  /\ loc' = [loc EXCEPT !["recovery"] =
              Done([l EXCEPT !.fails = @ + 1,
                             !.places = IF l.pc = "place" THEN @ + 1 ELSE @,
                             !.result = "raised", !.err = MsgLedger])]
  /\ recovery_list' = <<>>
  /\ UNCHANGED <<env, signal_queue, failed_trades, orders, execution_metrics,
                 active_orders, daily_pnl, clientClosed, created, stillQueued>>

----------------------------------------------------------------------------
(* Liquidation (execution_engine.py:335-392) *)

LiqTasks == <<"liq1", "liq2">>

MsgBulk == "Failed during bulk liquidation"

\* the SELL signal synthesized for a position: market order, price=None
LiquidationSignal(pos, strategy, ts) ==
  [timestamp |-> ts, ticker |-> pos.symbol, signal_type |-> "SELL",
   strategy_id |-> strategy, order_type |-> "market",
   quantity |-> float(pos.qty), price |-> None,
   limit_price |-> None, stop_price |-> None, time_in_force |-> "gtc"]

\* task i of the gather, running execute_trade_with_recovery(trade_signal) from
\* its first place_order call
LiquidationTask(pos, ts) ==
  [Idle EXCEPT !.pc = "place", !.via = "liquidation",
               !.sig = LiquidationSignal(pos, "liquidation", ts)]

LiquidationIdle ==
  /\ loc["liquidate"].pc = "idle"
  /\ \A i \in DOMAIN LiqTasks : loc[LiqTasks[i]].pc = "idle"

\* liquidate_all_positions: get_positions_async returned; one task per position
\* is handed to asyncio.gather
liquidate_all_positions ==
  /\ LiquidationIdle
  /\ ~clientClosed
  /\ \E ps \in env.positions :
       /\ loc' = [t \in Tasks |->
                    IF t = "liquidate"
                    THEN [Idle EXCEPT !.pc = "gather", !.via = "liquidate_all",
                                      !.size = Len(ps)]
                    ELSE IF \E i \in 1..Len(ps) : LiqTasks[i] = t
                    THEN LiquidationTask(ps[CHOOSE i \in 1..Len(ps) : LiqTasks[i] = t],
                                         created + (CHOOSE i \in 1..Len(ps) : LiqTasks[i] = t))
                    ELSE loc[t]]
       /\ created' = created + Len(ps)
  /\ UNCHANGED <<env, signal_queue, failed_trades, orders, execution_metrics, active_orders,
                 daily_pnl, clientClosed, recovery_list, stillQueued>>

\* get_positions_async raised in liquidate_all_positions (whose except clause
\* then finds `positions` unbound), or get_position_async raised in
\* liquidate_position: the call ends with an error
LiquidateError ==
  /\ LiquidationIdle
  /\ env.positions # {}
  /\ \E v \in {"liquidate_all", "liquidate_one"} :
       loc' = [loc EXCEPT !["liquidate"] = [Idle EXCEPT !.pc = "done", !.via = v,
                                                        !.result = "raised"]]
  /\ UNCHANGED <<env, signal_queue, failed_trades, orders, execution_metrics, active_orders,
                 daily_pnl, clientClosed, created, recovery_list, stillQueued>>

\* liquidate_position(ticker): get_position_async returned; the same coroutine
\* runs execute_trade_with_recovery for the one signal
liquidate_position ==
  /\ LiquidationIdle
  /\ ~clientClosed
  /\ \E ps \in env.positions : \E i \in 1..Len(ps) :
       loc' = [loc EXCEPT !["liquidate"] = [Idle EXCEPT !.pc = "single",
                                                        !.via = "liquidate_one", !.size = 1],
                          ![LiqTasks[1]] = LiquidationTask(ps[i], created + 1)]
  /\ created' = created + 1
  /\ UNCHANGED <<env, signal_queue, failed_trades, orders, execution_metrics, active_orders,
                 daily_pnl, clientClosed, recovery_list, stillQueued>>

\* the tasks of the running liquidation
Liquidating == {LiqTasks[i] : i \in 1..loc["liquidate"].size}

\* the signal the except clause of liquidate_all_positions builds for position
\* i (execution_engine.py:380-387)
BulkSignal(i, ts) ==
  [loc[LiqTasks[i]].sig EXCEPT !.strategy_id = "liquidation_recovery",
                               !.timestamp = ts]

\* rows the except clause writes for positions i..n without suspending, the
\* signal of position j stamped base + j
RECURSIVE BulkRows(_, _, _, _)
BulkRows(ft, i, n, base) ==
  IF i > n THEN ft
  ELSE BulkRows(log_failed_trade(ft, BulkSignal(i, base + i), MsgBulk), i + 1, n, base)

\* The except clause of liquidate_all_positions (execution_engine.py:376-392)
\* from position i on, with the active-order map act, to its next suspension
\* point: handle_failed_trade logs a row for each position under strategy
\* 'liquidation_recovery'; when that strategy has a tracked order (one placed
\* by the recovery of such a row) it suspends in cancel_order_async; after the
\* last position the error is re-raised.
Bulk(l, i, act) ==
  /\ active_orders' = act
  /\ IF i > l.size
     THEN /\ loc' = [loc EXCEPT !["liquidate"] = [l EXCEPT !.pc = "done",
                                                           !.result = "raised"]]
          /\ UNCHANGED <<failed_trades, created>>
     ELSE IF active_get(act, "liquidation_recovery") # 0
     THEN /\ failed_trades' = log_failed_trade(failed_trades,
                                               BulkSignal(i, created + 1), MsgBulk)
          /\ created' = created + 1
          /\ loc' = [loc EXCEPT !["liquidate"] =
                      [l EXCEPT !.pc = "cancel", !.sig = BulkSignal(i, created + 1),
                                !.logged = i,
                                !.cancel_id = active_get(act, "liquidation_recovery")]]
     ELSE /\ failed_trades' = BulkRows(failed_trades, i, l.size, created - (i - 1))
          /\ created' = created + (l.size - (i - 1))
          /\ loc' = [loc EXCEPT !["liquidate"] = [l EXCEPT !.pc = "done",
                                                           !.result = "raised",
                                                           !.logged = l.size]]

\* asyncio.gather delivers the first error of a task: the remaining tasks keep
\* running, the except clause logs every position and re-raises
GatherRaised ==
  LET l == loc["liquidate"] IN
  /\ l.pc = "gather"
  /\ \E t \in Liquidating : loc[t].pc = "done" /\ loc[t].result = "raised"
  /\ Bulk(l, 1, active_orders)
  /\ UNCHANGED <<env, signal_queue, orders, execution_metrics, daily_pnl,
                 clientClosed, recovery_list, stillQueued>>

\* cancel_order_async of the except clause's handle_failed_trade has returned
\* or raised (execution_engine.py:159-166): the finally clause pops the entry
\* of 'liquidation_recovery' and the loop goes on to the next position
BulkCancel ==
  LET l == loc["liquidate"] IN
  /\ l.pc = "cancel"
  /\ Bulk(l, l.logged + 1, active_pop(active_orders, "liquidation_recovery"))
  /\ UNCHANGED <<env, signal_queue, orders, execution_metrics, daily_pnl,
                 clientClosed, recovery_list, stillQueued>>

\* every task returned: gather returns, "All positions have been liquidated"
GatherReturned ==
  LET l == loc["liquidate"] IN
  /\ l.pc = "gather"
  /\ \A t \in Liquidating : loc[t].pc = "done" /\ loc[t].result = "success"
  /\ loc' = [loc EXCEPT !["liquidate"] = [l EXCEPT !.pc = "done", !.result = "success"]]
  /\ UNCHANGED <<env, signal_queue, failed_trades, orders, execution_metrics, active_orders,
                 daily_pnl, clientClosed, created, recovery_list, stillQueued>>

\* liquidate_position: execute_trade_with_recovery returned or raised
LiquidateOneDone ==
  LET l == loc["liquidate"] IN
  /\ l.pc = "single"
  /\ loc[LiqTasks[1]].pc = "done"
  /\ loc' = [loc EXCEPT !["liquidate"] = [l EXCEPT !.pc = "done",
                                                   !.result = loc[LiqTasks[1]].result]]
  /\ UNCHANGED <<env, signal_queue, failed_trades, orders, execution_metrics, active_orders,
                 daily_pnl, clientClosed, created, recovery_list, stillQueued>>

----------------------------------------------------------------------------
(* shutdown / cleanup (execution_engine.py:394-469) *)

\* cleanup's drain loop runs without suspending while the drained signal's
\* strategy has no tracked order: the rows it writes and the queue it leaves
\* (a None item is taken and skipped)
RECURSIVE DrainLedger(_, _, _)
DrainLedger(ft, q, act) ==
  IF q = <<>> THEN ft
  ELSE IF Head(q) = NoSignal THEN DrainLedger(ft, Tail(q), act)
  ELSE IF active_get(act, Head(q).strategy_id) # 0 THEN ft
  ELSE DrainLedger(log_failed_trade(ft, Head(q), MsgShutdown), Tail(q), act)

RECURSIVE DrainRest(_, _)
DrainRest(q, act) ==
  IF q = <<>> THEN q
  ELSE IF Head(q) = NoSignal THEN DrainRest(Tail(q), act)
  ELSE IF active_get(act, Head(q).strategy_id) # 0 THEN q
  ELSE DrainRest(Tail(q), act)

\* who runs cleanup() or cancel_all_orders() without going on to close the client
DirectCalls == {"cleanup", "cancel_all_orders"}

\* the frame is free for a call of shutdown(), cleanup() or cancel_all_orders():
\* none has been made, or only direct calls that have returned
NoShutdownYet ==
  \/ loc["shutdown"].pc = "idle"
  \/ loc["shutdown"].pc = "done" /\ loc["shutdown"].via \in DirectCalls

\* what awaiting session.close() of the aiohttp session can do before the
\* event loop runs anything else: return with the session closed, suspend with
\* the session closed already, or suspend with the session still open
CloseOutcomes == {"returned", "closed", "suspended"}

\* cleanup's finally clause clears the map and cleanup() returns.  shutdown()
\* then awaits alpaca_client.close(), which returns at once when the session is
\* closed already and otherwise awaits session.close() (alpaca_api.py:31-35).
\* frames is loc with what the step has already done to other coroutines' locals.
CleanupDone(frames, l) ==
  /\ active_orders' = NoActiveOrders
  /\ IF l.via \in DirectCalls \/ clientClosed
     THEN /\ clientClosed' = clientClosed
          /\ loc' = [frames EXCEPT !["shutdown"] = [l EXCEPT !.pc = "done", !.pos = 0, !.left = 0]]
     ELSE \E c \in CloseOutcomes :
            /\ clientClosed' = (c # "suspended")
            /\ loc' = [frames EXCEPT !["shutdown"] =
                        [l EXCEPT !.pc = IF c = "returned" THEN "done" ELSE "close",
                                  !.pos = 0, !.left = 0]]

\* session.close() returned: the client is closed and shutdown() returns
Close ==
  /\ loc["shutdown"].pc = "close"
  /\ clientClosed' = TRUE
  /\ loc' = [loc EXCEPT !["shutdown"] = [@ EXCEPT !.pc = "done"]]
  /\ UNCHANGED <<env, signal_queue, failed_trades, orders, execution_metrics,
                 active_orders, daily_pnl, created, recovery_list, stillQueued>>

\* The for statement of the final status update (execution_engine.py:455) asks
\* the iterator over the live dict act for its next item.  The iterator raises
\* RuntimeError when the dict's size is not what it was when the loop started,
\* ends the loop when no used slot follows the one it gave last, and raises
\* RuntimeError when it has given as many items as the dict held at the start;
\* cleanup's except clause (464-465) catches the error.  Otherwise the loop body
\* suspends in get_order_status_async for the order the slot holds now.
FinalNext(frames, l, act) ==
  LET i == NextSlot(act, l.pos) IN
  IF Cardinality(ActiveStrategies(act)) # l.size \/ i = 0 \/ l.left = 0
  THEN CleanupDone(frames, l)
  ELSE /\ loc' = [frames EXCEPT !["shutdown"] =
                   [l EXCEPT !.pc = "final", !.oid = act[i].oid, !.pos = i,
                             !.left = @ - 1, !.asked = @ \cup {act[i].oid}]]
       /\ active_orders' = act
       /\ UNCHANGED clientClosed

\* cleanup from the drain loop on (execution_engine.py:442-469), over the
\* queue items q that get_nowait finds and with the active-order map act, up to
\* the next suspension point.  frames is loc with what the step has already
\* done to other coroutines' locals.
Drain(frames, q, l, act) ==
  LET q1  == DrainRest(q, act)
      ft1 == DrainLedger(failed_trades, q, act)
  IN IF q1 # <<>>
     THEN \* handle_failed_trade suspends in cancel_order_async
          /\ signal_queue' = Tail(q1)
          /\ failed_trades' = log_failed_trade(ft1, Head(q1), MsgShutdown)
          /\ active_orders' = act
          /\ loc' = [frames EXCEPT !["shutdown"] =
                      [l EXCEPT !.pc = "cancel", !.sig = Head(q1),
                                !.cancel_id = active_get(act, Head(q1).strategy_id)]]
          /\ UNCHANGED clientClosed
     ELSE \* the queue is empty: the final status update starts its iteration
          /\ signal_queue' = <<>>
          /\ failed_trades' = ft1
          /\ FinalNext(frames,
                       [l EXCEPT !.size = Cardinality(ActiveStrategies(act)),
                                 !.pos = 0,
                                 !.left = Cardinality(ActiveStrategies(act))],
                       act)

\* q without its k-th item
Remove(q, k) == [i \in 1..(Len(q) - 1) |-> IF i < k THEN q[i] ELSE q[i + 1]]

\* how far into q the drain loop gets without suspending: the position of the
\* first signal whose strategy has a tracked order, Len(q) when there is none
DrainReach(q, act) ==
  LET stops == {i \in DOMAIN q : q[i] # NoSignal
                                  /\ active_get(act, q[i].strategy_id) # 0}
  IN IF stops = {} THEN Len(q)
     ELSE CHOOSE i \in stops : \A j \in stops : i <= j

\* The drain loop and the executor thread.  The consumer's signal_queue.get
\* (execution_engine.py:137) runs in a thread of its own, so while the consumer
\* waits in it the call can return between two get_nowait calls of the drain
\* loop: the thread takes the k-th item, the loop drains the others.
DrainLoop(l, act) ==
  \/ /\ Drain(loc, signal_queue, l, act)
     /\ stillQueued' = stillQueued
  \/ /\ loc["consumer"].pc = "get"
     /\ ~InExecute
     /\ \E k \in 2..DrainReach(signal_queue, act) :
          /\ Drain([loc EXCEPT !["consumer"] =
                      [@ EXCEPT !.pc = "got", !.sig = signal_queue[k]]],
                   Remove(signal_queue, k), l, act)
          /\ stillQueued' = stillQueued \ {signal_queue[k].timestamp}

\* shutdown() -> cleanup() -> cancel_all_orders(): clear the map, then await
\* cancel_all_orders_async.  (_recovery_task is never assigned, so nothing is cancelled.)
ShutdownStart ==
  /\ NoShutdownYet
  /\ active_orders' = NoActiveOrders
  /\ stillQueued' = {signal_queue[i].timestamp : i \in 1..Len(signal_queue)}
  /\ loc' = [loc EXCEPT !["shutdown"] =
              [Idle EXCEPT !.pc = "cancelall", !.via = "shutdown",
                           !.tracked = {active_get(active_orders, s) :
                                          s \in ActiveStrategies(active_orders)}]]
  /\ UNCHANGED <<env, signal_queue, failed_trades, orders, execution_metrics, daily_pnl,
                 clientClosed, created, recovery_list>>

\* shutdown() called again after an earlier call has returned: the same code
\* runs, on a client whose session is closed
ShutdownAgain ==
  /\ loc["shutdown"].pc = "done"
  /\ loc["shutdown"].via = "shutdown"
  /\ active_orders' = NoActiveOrders
  /\ loc' = [loc EXCEPT !["shutdown"] = [@ EXCEPT !.pc = "cancelall", !.via = "shutdown2"]]
  /\ UNCHANGED <<env, signal_queue, failed_trades, orders, execution_metrics, daily_pnl,
                 clientClosed, created, recovery_list, stillQueued>>

\* cleanup() called on its own (execution_engine.py:436-469): the same code as
\* under shutdown(), without the close that follows it
cleanup ==
  /\ NoShutdownYet
  /\ active_orders' = NoActiveOrders
  /\ loc' = [loc EXCEPT !["shutdown"] = [Idle EXCEPT !.pc = "cancelall", !.via = "cleanup"]]
  /\ UNCHANGED <<env, signal_queue, failed_trades, orders, execution_metrics, daily_pnl,
                 clientClosed, created, recovery_list, stillQueued>>

\* cancel_all_orders() called on its own (execution_engine.py:394-403): clear
\* the map, then await cancel_all_orders_async
cancel_all_orders ==
  /\ NoShutdownYet
  /\ active_orders' = NoActiveOrders
  /\ loc' = [loc EXCEPT !["shutdown"] =
              [Idle EXCEPT !.pc = "cancelall", !.via = "cancel_all_orders"]]
  /\ UNCHANGED <<env, signal_queue, failed_trades, orders, execution_metrics, daily_pnl,
                 clientClosed, created, recovery_list, stillQueued>>

\* cancel_all_orders_async raised: cancel_all_orders re-raises (to its direct
\* caller, or to cleanup, whose except clause logs it and skips the drain loop)
CancelAllError ==
  LET l == loc["shutdown"] IN
  /\ l.pc = "cancelall"
  /\ IF l.via = "cancel_all_orders"
     THEN /\ loc' = [loc EXCEPT !["shutdown"] = [l EXCEPT !.pc = "done", !.result = "raised"]]
          /\ UNCHANGED <<active_orders, clientClosed>>
     ELSE CleanupDone(loc, l)
  /\ UNCHANGED <<env, signal_queue, failed_trades, orders, execution_metrics, daily_pnl,
                 created, recovery_list, stillQueued>>

\* cancel_all_orders_async returned: cancel_all_orders returns (to its direct
\* caller, or to cleanup, which goes on to the drain loop)
CancelAll ==
  LET l == loc["shutdown"] IN
  /\ l.pc = "cancelall"
  /\ ~clientClosed
  /\ IF l.via = "cancel_all_orders"
     THEN /\ loc' = [loc EXCEPT !["shutdown"] = [l EXCEPT !.pc = "done", !.result = "success"]]
          /\ UNCHANGED <<signal_queue, failed_trades, active_orders, clientClosed,
                         stillQueued>>
     ELSE DrainLoop(l, active_orders)
  /\ UNCHANGED <<env, orders, execution_metrics, daily_pnl, created, recovery_list>>

\* cancel_order_async of handle_failed_trade returned or raised inside the drain
\* loop: pop the strategy's entry and go on draining
DrainCancel ==
  LET l == loc["shutdown"] IN
  /\ l.pc = "cancel"
  /\ DrainLoop(l, active_pop(active_orders, l.sig.strategy_id))
  /\ UNCHANGED <<env, orders, execution_metrics, daily_pnl, created, recovery_list>>

\* final status update: get_order_status_async raised, the error is only logged
FinalStatusError ==
  /\ loc["shutdown"].pc = "final"
  /\ FinalNext(loc, loc["shutdown"], active_orders)
  /\ UNCHANGED <<env, signal_queue, failed_trades, orders, execution_metrics, daily_pnl,
                 created, recovery_list, stillQueued>>

\* final status update: update_order with the status the broker reports
\* (polls counts the status answers this coroutine has written to the ledger)
FinalStatus ==
  /\ loc["shutdown"].pc = "final"
  /\ ~clientClosed
  /\ \E st \in env.order_statuses :
       /\ orders' = update_order(orders, loc["shutdown"].oid, st)
       /\ execution_metrics' = update_metrics(execution_metrics, loc["shutdown"].oid, st)
  /\ FinalNext(loc, [loc["shutdown"] EXCEPT !.polls = @ + 1], active_orders)
  /\ UNCHANGED <<env, signal_queue, failed_trades, daily_pnl, created,
                 recovery_list, stillQueued>>

----------------------------------------------------------------------------
(* The engine *)

\* every coroutine that runs execute_trade_with_recovery
Runners == Workers \cup {LiqTasks[i] : i \in DOMAIN LiqTasks}

Next ==
  \/ Construct
  \/ FromDict
  \/ add_trade_signal
  \/ add_none
  \/ process_signals
  \/ Dequeue
  \/ ProcessSignal
  \/ SubmitDirect
  \/ \E t \in Workers : ValidateError(t)
  \/ \E t \in Workers : Validate(t)
  \/ \E t \in Runners : PlaceError(t)
  \/ \E t \in Runners : Place(t)
  \/ \E t \in Runners : PollError(t)
  \/ \E t \in Runners : Poll(t)
  \/ \E t \in Runners : PnlError(t)
  \/ \E t \in Runners : Pnl(t)
  \/ \E t \in Runners : Cancel(t)
  \/ run_recovery
  \/ RecoveryPass
  \/ RecoverNext
  \/ MarkFailedError
  \/ RecoverUndecodable
  \/ liquidate_all_positions
  \/ LiquidateError
  \/ liquidate_position
  \/ GatherRaised
  \/ BulkCancel
  \/ GatherReturned
  \/ LiquidateOneDone
  \/ ShutdownStart
  \/ ShutdownAgain
  \/ cleanup
  \/ cancel_all_orders
  \/ CancelAllError
  \/ CancelAll
  \/ DrainCancel
  \/ FinalStatusError
  \/ FinalStatus
  \/ Close

Spec == Init /\ [][Next]_vars

----------------------------------------------------------------------------
(* Scenarios: the same actions with fewer coroutines running, or with a    *)
(* broker client that answers from fewer values                            *)

\* execute_trade_signal alone (queue consumer and direct callers), any broker answer
NextSubmit ==
  \/ add_trade_signal
  \/ process_signals
  \/ Dequeue
  \/ ProcessSignal
  \/ SubmitDirect
  \/ \E t \in Submitters : ValidateError(t)
  \/ \E t \in Submitters : Validate(t)
  \/ \E t \in Submitters : PlaceError(t)
  \/ \E t \in Submitters : Place(t)
  \/ \E t \in Submitters : PollError(t)
  \/ \E t \in Submitters : Poll(t)
  \/ \E t \in Submitters : PnlError(t)
  \/ \E t \in Submitters : Pnl(t)
  \/ \E t \in Submitters : Cancel(t)

SpecSubmit == Init /\ [][NextSubmit]_vars

\* a broker whose orders are filled or rejected by the first status poll, and a
\* producer of stop orders worth 20000 (within the position cap for a portfolio
\* of 1000000, above it for 100000)
RecoveryEnv ==
  [kinds |-> {k \in SignalKinds : k.order_type = "stop"},
   portfolio_values |-> PortfolioValues,
   place_statuses |-> {"new"}, order_statuses |-> {"filled", "rejected"},
   pnl_values |-> {0}, positions |-> {}, stop_event |-> "absent"]

\* Ledgers an earlier run of the engine can leave behind (the tables are an
\* SQLite file that outlives the process): n rows logged by execute_trade_signal
\* for n signals, still 'pending' with retry_count 0
InheritedErrors == {MsgMarketClosed, MsgValidation}

InheritedLedgers(kinds) ==
  UNION { { ft \in [1..n -> [trade_signal : {to_dict(TradeSignal(k, i)) :
                                                k \in kinds, i \in 1..n},
                             error_message : InheritedErrors,
                             retry_count : {0}, status : {"pending"}]] :
              \A i \in 1..n : ft[i].trade_signal.timestamp = isoformat(i) }
          : n \in 1..MaxRows }

\* the engine constructed over an inherited ledger
InitRecovery ==
  /\ env = RecoveryEnv
  /\ signal_queue = <<>>
  /\ failed_trades \in InheritedLedgers(env.kinds)
  /\ orders = <<>>
  /\ execution_metrics = <<>>
  /\ active_orders = NoActiveOrders
  /\ daily_pnl = 0
  /\ clientClosed = FALSE
  /\ created = Len(failed_trades)
  /\ recovery_list = <<>>
  /\ stillQueued = {}
  /\ loc = [t \in Tasks |-> Idle]

\* the recovery task alone
NextRecovery ==
  \/ ValidateError("recovery")
  \/ Validate("recovery")
  \/ PlaceError("recovery")
  \/ Place("recovery")
  \/ PollError("recovery")
  \/ Poll("recovery")
  \/ PnlError("recovery")
  \/ Pnl("recovery")
  \/ Cancel("recovery")
  \/ RecoveryPass
  \/ RecoverNext

SpecRecovery == InitRecovery /\ [][NextRecovery]_vars

\* the recovery task alone, over a ledger whose writes can fail
NextRecoveryFaults ==
  \/ NextRecovery
  \/ MarkFailedError

SpecRecoveryFaults == InitRecovery /\ [][NextRecoveryFaults]_vars

\* ledgers an earlier run left behind in which any of the stored signals may
\* have become undecodable
DamagedLedgers(kinds) ==
  UNION { { [i \in DOMAIN ft |-> IF i \in bad
                                 THEN [ft[i] EXCEPT !.trade_signal = Garbled(@)]
                                 ELSE ft[i]] : bad \in SUBSET DOMAIN ft }
          : ft \in InheritedLedgers(kinds) }

\* the engine constructed over a ledger that may hold undecodable signals
InitRecoveryDamaged ==
  /\ env = RecoveryEnv
  /\ signal_queue = <<>>
  /\ failed_trades \in DamagedLedgers(env.kinds)
  /\ orders = <<>>
  /\ execution_metrics = <<>>
  /\ active_orders = NoActiveOrders
  /\ daily_pnl = 0
  /\ clientClosed = FALSE
  /\ created = Len(failed_trades)
  /\ recovery_list = <<>>
  /\ stillQueued = {}
  /\ loc = [t \in Tasks |-> Idle]

\* the recovery task alone, over such a ledger
NextRecoveryDamaged ==
  \/ NextRecovery
  \/ RecoverUndecodable

SpecRecoveryDamaged == InitRecoveryDamaged /\ [][NextRecoveryDamaged]_vars

\* TradeSignal construction and its serialization round trip
NextSignal ==
  \/ Construct
  \/ FromDict

SpecSignal == Init /\ [][NextSignal]_vars

\* the engine constructed over an inherited ledger (which schedules
\* run_recovery), recovery passes, and shutdown() on the same event loop
NextScheduler ==
  \/ run_recovery
  \/ NextRecovery
  \/ ShutdownStart
  \/ CancelAllError
  \/ CancelAll
  \/ FinalStatusError
  \/ FinalStatus
  \/ Close

\* a broker that fills every order by the first status poll, a portfolio of
\* 1000000 and a producer of stop orders worth 20000
SchedulerEnv ==
  [kinds |-> {k \in SignalKinds : k.order_type = "stop"},
   portfolio_values |-> {1000000},
   place_statuses |-> {"new"}, order_statuses |-> {"filled"},
   pnl_values |-> {0}, positions |-> {}, stop_event |-> "absent"]

\* the engine constructed over a ledger that holds one pending row
InitScheduler ==
  /\ env = SchedulerEnv
  /\ signal_queue = <<>>
  /\ failed_trades \in {ft \in InheritedLedgers(env.kinds) : Len(ft) = 1}
  /\ orders = <<>>
  /\ execution_metrics = <<>>
  /\ active_orders = NoActiveOrders
  /\ daily_pnl = 0
  /\ clientClosed = FALSE
  /\ created = Len(failed_trades)
  /\ recovery_list = <<>>
  /\ stillQueued = {}
  /\ loc = [t \in Tasks |-> Idle]

SpecScheduler == InitScheduler /\ [][NextScheduler]_vars

\* a broker that fills every order at placement or by the first status poll, a
\* portfolio of 100000 and a producer of market orders worth 1500 for one strategy
ShutdownEnv ==
  [kinds |-> {k \in SignalKinds : k.order_type = "market" /\ k.price = 150
                                  /\ k.quantity = 10},
   portfolio_values |-> {100000},
   place_statuses |-> PlaceStatuses, order_statuses |-> {"filled"},
   pnl_values |-> {0}, positions |-> {}, stop_event |-> "absent"]

\* queues add_trade_signal can have built before the consumer takes anything
Queues(kinds) ==
  UNION { { q \in [1..n -> {TradeSignal(k, i) : k \in kinds, i \in 1..n}] :
              \A i \in 1..n : q[i].timestamp = i }
          : n \in 0..MaxQueue }

InitShutdown ==
  /\ env \in Applications(ShutdownEnv)
  /\ signal_queue \in Queues(env.kinds)
  /\ failed_trades = <<>>
  /\ orders = <<>>
  /\ execution_metrics = <<>>
  /\ active_orders = NoActiveOrders
  /\ daily_pnl = 0
  /\ clientClosed = FALSE
  /\ created = Len(signal_queue)
  /\ recovery_list = <<>>
  /\ stillQueued = {}
  /\ loc = [t \in Tasks |-> Idle]

\* the queue consumer and shutdown() on the same event loop
NextShutdown ==
  \/ process_signals
  \/ Dequeue
  \/ ProcessSignal
  \/ ValidateError("submit")
  \/ Validate("submit")
  \/ PlaceError("submit")
  \/ Place("submit")
  \/ PollError("submit")
  \/ Poll("submit")
  \/ PnlError("submit")
  \/ Pnl("submit")
  \/ Cancel("submit")
  \/ ShutdownStart
  \/ ShutdownAgain
  \/ CancelAllError
  \/ CancelAll
  \/ DrainCancel
  \/ FinalStatusError
  \/ FinalStatus
  \/ Close

SpecShutdown == InitShutdown /\ [][NextShutdown]_vars


\* the queue consumer alone, over a queue add_trade_signal has filled: orders
\* for one strategy that pass or exceed the position cap of a 100000 portfolio,
\* a broker whose calls can fail and whose account can show a daily loss
QueueEnv ==
  [kinds |-> {k \in SignalKinds : k.strategy_id = "s1" /\ k.order_type \in {"market", "stop"}},
   portfolio_values |-> {100000},
   place_statuses |-> {"new"}, order_statuses |-> {"new", "filled", "rejected"},
   pnl_values |-> PnlValues, positions |-> {}, stop_event |-> "absent"]

InitQueue ==
  /\ env \in Applications(QueueEnv)
  /\ signal_queue \in Queues(env.kinds)
  /\ failed_trades = <<>>
  /\ orders = <<>>
  /\ execution_metrics = <<>>
  /\ active_orders = NoActiveOrders
  /\ daily_pnl = 0
  /\ clientClosed = FALSE
  /\ created = Len(signal_queue)
  /\ recovery_list = <<>>
  /\ stillQueued = {}
  /\ loc = [t \in Tasks |-> Idle]

NextQueue ==
  \/ process_signals
  \/ Dequeue
  \/ ProcessSignal
  \/ ValidateError("submit")
  \/ Validate("submit")
  \/ PlaceError("submit")
  \/ Place("submit")
  \/ PollError("submit")
  \/ Poll("submit")
  \/ PnlError("submit")
  \/ Pnl("submit")
  \/ Cancel("submit")

SpecQueue == InitQueue /\ [][NextQueue]_vars

\* liquidation alone: a broker that holds one or two positions, accepts or
\* refuses each order, and reports it open or filled
LiquidationEnv ==
  [kinds |-> {}, portfolio_values |-> {100000},
   place_statuses |-> {"new"}, order_statuses |-> {"new", "filled"},
   pnl_values |-> {0}, positions |-> Holdings, stop_event |-> "absent"]

InitLiquidation ==
  /\ env = LiquidationEnv
  /\ Constructed

NextLiquidation ==
  \/ liquidate_all_positions
  \/ LiquidateError
  \/ liquidate_position
  \/ GatherRaised
  \/ GatherReturned
  \/ LiquidateOneDone
  \/ \E i \in DOMAIN LiqTasks : PlaceError(LiqTasks[i])
  \/ \E i \in DOMAIN LiqTasks : Place(LiqTasks[i])
  \/ \E i \in DOMAIN LiqTasks : PollError(LiqTasks[i])
  \/ \E i \in DOMAIN LiqTasks : Poll(LiqTasks[i])
  \/ \E i \in DOMAIN LiqTasks : PnlError(LiqTasks[i])
  \/ \E i \in DOMAIN LiqTasks : Pnl(LiqTasks[i])
  \/ \E i \in DOMAIN LiqTasks : Cancel(LiqTasks[i])

SpecLiquidation == InitLiquidation /\ [][NextLiquidation]_vars

----------------------------------------------------------------------------
(* Properties: risk validation and the market-hours gate *)

\* failed_trades rows of the signal created with sequence number ts
RowsOf(ts) ==
  {i \in DOMAIN failed_trades :
     fromisoformat(failed_trades[i].trade_signal.timestamp) = ts}

\* orders rows written for that signal
OrdersOf(ts) == {i \in DOMAIN orders : orders[i].for_signal = ts}

\* the signal's value as the risk checks are described: quantity times the limit
\* price of a limit order, the stop price of a stop order, otherwise the
\* reference price, 0 when that is absent
StatedValue(s) ==
  s.quantity * (IF s.order_type = "limit" THEN s.limit_price
                ELSE IF s.order_type = "stop" THEN s.stop_price
                ELSE IF s.price = None THEN 0 ELSE s.price)

OverStatedCaps(s, pv) ==
  \/ StatedValue(s) * 10 > pv
  \/ StatedValue(s) > 50000

\* C1: a signal whose value exceeds 10% of the portfolio value reported by the
\* broker, or exceeds max_order_value, is rejected by validation and the engine
\* never calls the place operation for it; a signal at or below both caps is not
\* rejected by the position-size or order-value check.  (Submit path; pv is the
\* portfolio value validation saw, kept until the first place call.)
C1_RiskCapsGatePlacement ==
  \A t \in Submitters : LET l == loc[t] IN
  /\ (l.pc = "place" /\ l.places = 0) => ~OverStatedCaps(l.sig, l.pv)
  /\ (l.places > 0 \/ l.pc \in {"place", "poll", "pnl"}) =>
        /\ l.vres = "ok"
        /\ StatedValue(l.sig) <= 50000
  /\ l.vres \in {"position", "order_value"} =>
        /\ OverStatedCaps(l.sig, l.pv)
        /\ l.places = 0
        /\ l.pc \in {"cancel", "done"}
  /\ (l.vres = "daily_loss") => ~OverStatedCaps(l.sig, l.pv)

\* a signal over max_order_value only (60000 against a portfolio of 1000000)
\* was rejected, recorded once, and never placed
C1_Witness ==
  \E t \in Submitters : LET l == loc[t] IN
  /\ l.pc = "done"
  /\ l.vres = "order_value"
  /\ l.pv = 1000000
  /\ StatedValue(l.sig) = 60000
  /\ l.places = 0
  /\ Len(failed_trades) = 1

\* C2: whenever the market is closed, no dequeued or recovered signal reaches
\* the place operation: every place call, on the queue path and on the recovery
\* path, follows a market-hours check for that signal that found the market
\* open, and a signal refused because the market is closed gets exactly one
\* failed-trade record, "Market closed".
C2_MarketGateOnEveryPath ==
  \A t \in Workers :
    LET l == loc[t] IN
    /\ (l.pc \in {"place", "poll", "pnl"} \/ l.places > 0) => l.gate = "open"
    /\ (l.pc = "done" /\ l.gate = "closed") =>
          /\ l.places = 0
          /\ Cardinality(RowsOf(l.sig.timestamp)) = 1
          /\ \A i \in RowsOf(l.sig.timestamp) :
               failed_trades[i].error_message = MsgMarketClosed

----------------------------------------------------------------------------
(* Properties: inline retry (execute_trade_with_recovery) *)

\* C3: when the place operation fails on every attempt of a submitted signal,
\* submit fails and the ledger ends with exactly one failed_trades row for the
\* signal, with status 'pending' and retry_count 0.
C3_OneRowWhenPlaceAlwaysFails ==
  \A t \in Submitters : LET l == loc[t] IN
  (l.pc = "done" /\ l.vres = "ok" /\ l.places = max_retries /\ l.oks = 0) =>
     /\ l.result = "raised"
     /\ Cardinality(RowsOf(l.sig.timestamp)) = 1
     /\ \A i \in RowsOf(l.sig.timestamp) :
          failed_trades[i].status = "pending" /\ failed_trades[i].retry_count = 0

\* C4: when the place operation fails fewer than 3 consecutive times and then
\* succeeds (and the broker reports no order of the signal canceled or
\* rejected), submit succeeds and the ledger ends with exactly one orders row,
\* one execution_metrics row with success = 1, and no failed_trades row for the
\* signal.
C4_TransientFailuresAbsorbed ==
  \A t \in Submitters : LET l == loc[t] IN
  (/\ l.pc = "done"
   /\ l.oks >= 1 /\ ~l.relapse
   /\ \A i \in OrdersOf(l.sig.timestamp) : orders[i].status \notin {"canceled", "rejected"}) =>
     /\ l.result = "success"
     /\ Cardinality(OrdersOf(l.sig.timestamp)) = 1
     /\ \A i \in OrdersOf(l.sig.timestamp) : execution_metrics[i].success = 1
     /\ RowsOf(l.sig.timestamp) = {}

\* inside execute_trade_with_recovery or the failure handling it calls
InRetryLoop(l) == l.pc \in {"place", "poll", "pnl", "cancel"} /\ l.vres = "ok"

\* steps the call can still take: the rest of this iteration plus the full
\* iterations left
StepsLeft(l) ==
  IF l.pc = "cancel" THEN 1
  ELSE (3 - 1 - l.attempt) * (MaxPolls + 3)
       + (IF l.pc = "place" THEN MaxPolls + 3
          ELSE IF l.pc = "poll" THEN MaxPolls - l.polls + 2
          ELSE 2)

\* C5, state part: the counts of place calls, orders written and failure
\* records of one call, and how a finished call ended
C5_Bounded ==
  \A t \in Submitters : LET l == loc[t] IN
  /\ l.places <= 3 /\ l.attempt < 3 /\ l.oks <= l.places
  /\ (l.pc = "done" /\ l.result = "success") => (l.oks >= 1 /\ l.oks <= 3)
  /\ (l.vres = "ok" /\ l.logged > 0) => (l.fails = 3 /\ l.result = "raised")
  /\ (l.vres = "ok" /\ l.pc = "done") => l.result \in {"success", "raised"}
  /\ InRetryLoop(l) => StepsLeft(l) > 0

\* C5, step part: a step of the call ends it or lowers StepsLeft
C5_Progress ==
  \A t \in Submitters : LET l == loc[t] IN
  (InRetryLoop(l) /\ loc'[t] # l) =>
     \/ loc'[t].pc = "done"
     \/ InRetryLoop(loc'[t]) /\ StepsLeft(loc'[t]) < StepsLeft(l)

\* C5: one call of execute_trade_with_recovery invokes the placement step at
\* most 3 times (so add_order is called between 1 and 3 times when placement
\* eventually succeeds), a failure record is created only after the third
\* consecutive failure, and the call always terminates with either success or a
\* raised error: every step of the call lowers a bounded count of steps left.
C5_InlineRetryBounded == []C5_Bounded /\ [][C5_Progress]_vars

\* placement succeeded on the third attempt after two failures: three place
\* calls, one order written, no failure record
C5_Witness ==
  \E t \in Submitters : LET l == loc[t] IN
  /\ l.pc = "done"
  /\ l.result = "success"
  /\ l.places = 3
  /\ l.fails = 2
  /\ l.oks = 1
  /\ l.logged = 0

----------------------------------------------------------------------------
(* Properties: the recovery task and the failed_trades ledger *)

\* the recovery attempt on row l.row has ended and did not succeed
AttemptFailed(l) == l.pc = "done" /\ l.via = "recovery" /\ l.result \in {"rejected", "raised"}

\* C6: a recovery attempt on a row whose retry_count equals max_retries - 1
\* ends with status 'failed' if the attempt fails again, whether re-validation
\* rejected the signal or placement raised, and with status 'resolved' if the
\* attempt succeeds.
C6_LastAttemptIsTerminal ==
  LET l == loc["recovery"] IN
  (l.pc = "done" /\ l.via = "recovery" /\ l.rc = 3 - 1) =>
     /\ AttemptFailed(l) => failed_trades[l.row].status = "failed"
     /\ l.result = "success" => failed_trades[l.row].status = "resolved"

\* C7, as stated: when a recovery attempt fails and the maximum retry count is
\* not yet reached, the row's retry_count increases by exactly 1, its status
\* becomes 'retry', and its error_message becomes the new error.
C7_FailedAttemptSetsRetry ==
  LET l == loc["recovery"] IN
  (AttemptFailed(l) /\ l.rc + 1 < 3) =>
     /\ failed_trades[l.row].retry_count = l.rc + 1
     /\ failed_trades[l.row].status = "retry"
     /\ failed_trades[l.row].error_message \notin InheritedErrors

\* C7, amended: when a recovery attempt fails and the maximum retry count is
\* not yet reached, the row's retry_count increases by exactly 1, its status
\* stays 'pending' (the status 'retry' is never stored), and its error_message
\* becomes the error of this attempt.
C7_FailedAttemptStaysPending ==
  LET l == loc["recovery"] IN
  (AttemptFailed(l) /\ l.rc + 1 < 3) =>
     /\ failed_trades[l.row].retry_count = l.rc + 1
     /\ failed_trades[l.row].status = "pending"
     /\ l.result = "rejected" => failed_trades[l.row].error_message = MsgRecoveryValidation
     /\ l.result = "raised" => failed_trades[l.row].error_message \in {MsgPlace, MsgStatus}

\* the second attempt on a row failed in placement: retry_count went from 1 to 2
C7_Witness ==
  LET l == loc["recovery"] IN
  /\ AttemptFailed(l)
  /\ l.result = "raised"
  /\ l.rc = 1
  /\ failed_trades[l.row].retry_count = 2
  /\ failed_trades[l.row].error_message = MsgPlace

\* C8: after any sequence of recovery passes no row is left non-terminal with
\* retry_count >= max_retries: a row whose retry count reaches the maximum has
\* status 'failed', and retry_count never exceeds max_retries.
C8_ExhaustedRowsAreFailed ==
  \A i \in DOMAIN failed_trades :
    /\ failed_trades[i].retry_count <= 3
    /\ failed_trades[i].retry_count >= 3 => failed_trades[i].status = "failed"

Terminal == {"resolved", "failed"}

\* C9, state part: the rows a pass fetched, and the row being attempted, are
\* 'pending' with retry_count below the maximum
C9_SelectsPendingOnly ==
  LET l == loc["recovery"] IN
  /\ \A k \in DOMAIN recovery_list :
       /\ failed_trades[recovery_list[k].id].status = "pending"
       /\ failed_trades[recovery_list[k].id].retry_count < 3
  /\ (l.via = "recovery" /\ l.pc \in {"validate", "place", "poll", "pnl"}) =>
       /\ failed_trades[l.row].status = "pending"
       /\ failed_trades[l.row].retry_count < 3
       /\ failed_trades[l.row].retry_count = l.rc

\* C9, step part: a terminal row is not changed and no attempt starts on it
C9_TerminalRowsKept ==
  \A i \in DOMAIN failed_trades :
    failed_trades[i].status \in Terminal =>
       /\ i \in DOMAIN failed_trades'
       /\ failed_trades'[i] = failed_trades[i]
       /\ loc'["recovery"] # loc["recovery"] =>
            ~(loc'["recovery"].pc = "validate" /\ loc'["recovery"].row = i)

\* C9: 'resolved' and 'failed' are terminal for a failed_trades row: once a row
\* has either status, no later recovery pass selects it, re-submits its signal,
\* or changes its status, retry_count or error_message; recovery selects only
\* rows with status 'pending' and retry_count < max_retries.
C9_TerminalStatuses == []C9_SelectsPendingOnly /\ [][C9_TerminalRowsKept]_vars

\* a pass fetched its rows while another row was already terminal
C9_Witness ==
  /\ recovery_list # <<>>
  /\ \E i \in DOMAIN failed_trades : failed_trades[i].status \in Terminal
  /\ \E i \in DOMAIN failed_trades : failed_trades[i].status = "pending"
                                     /\ failed_trades[i].retry_count > 0

----------------------------------------------------------------------------
(* Properties: shutdown *)

\* C10: after shutdown() completes, for any number of signals still queued and
\* any broker behaviour during shutdown, the signal queue is empty and every
\* signal that was still queued has a failed_trades row whose error cites
\* shutdown.
C10_ShutdownDrainsQueue ==
  (loc["shutdown"].pc = "done") =>
     /\ signal_queue = <<>>
     /\ \A ts \in stillQueued :
          \E i \in RowsOf(ts) : failed_trades[i].error_message = MsgShutdown

----------------------------------------------------------------------------
(* Properties: liquidation *)

LiqSet == {LiqTasks[i] : i \in DOMAIN LiqTasks}

\* failed_trades rows whose signal is for ticker tk
RowsOfTicker(tk) ==
  {i \in DOMAIN failed_trades : failed_trades[i].trade_signal.ticker = tk}

\* liquidate_all_positions over two positions has ended, and so have its tasks
BulkOfTwoEnded ==
  /\ loc["liquidate"].pc = "done"
  /\ loc["liquidate"].via = "liquidate_all"
  /\ loc["liquidate"].size = 2
  /\ \A t \in LiqSet : loc[t].pc = "done"

\* C11: bulk liquidation of two positions where placement fails for one ticker
\* (every place call raises) and succeeds for the other (first place call
\* accepted, order followed without error) leaves exactly one orders row, for
\* the successful ticker, and exactly one failed_trades row, for the failed
\* ticker; no failed_trades row is written for the ticker that succeeded.
C11_BulkLiquidationRecordsEach ==
  \A ok \in LiqSet : \A bad \in LiqSet :
    (/\ BulkOfTwoEnded
     /\ loc[ok].result = "success" /\ loc[ok].fails = 0
     /\ loc[bad].result = "raised" /\ loc[bad].oks = 0) =>
       /\ Len(orders) = 1
       /\ orders[1].for_signal = loc[ok].sig.timestamp
       /\ Cardinality(RowsOfTicker(loc[bad].sig.ticker)) = 1
       /\ RowsOfTicker(loc[ok].sig.ticker) = {}

\* C12: in liquidate_all_positions a failure of one ticker does not abort the
\* others: every position's task attempts its placement and ends with the
\* outcome of its own broker calls, the failure handling of one ticker sends no
\* cancel for another ticker's order, and each failing ticker has a failure
\* record of its own.
C12_LiquidationsIndependent ==
  \A t \in LiqSet :
    LET l == loc[t] IN
    /\ (l.pc = "done") => l.places >= 1
    /\ (l.pc = "done" /\ l.result = "raised") =>
          \E i \in RowsOf(l.sig.timestamp) :
             failed_trades[i].trade_signal.strategy_id = "liquidation"
    /\ (l.cancel_id # 0) => orders[l.cancel_id].for_signal = l.sig.timestamp

\* C16: no liquidation order is placed with the broker unless the market-hours
\* check and the risk-limit checks have passed for its signal.
C16_LiquidationIsGated ==
  \A t \in LiqSet :
    (loc[t].pc \in {"place", "poll", "pnl"} \/ loc[t].places > 0) =>
       /\ loc[t].gate = "open"
       /\ loc[t].vres = "ok"

----------------------------------------------------------------------------
(* Properties: the queue consumer *)

\* the number of the signal the consumer has in hand: the one it has just taken
\* from the queue, otherwise the one it passed to execute_trade_signal
InHand ==
  IF loc["consumer"].pc = "got" THEN loc["consumer"].sig.timestamp
  ELSE loc["submit"].sig.timestamp

\* C13, state part: with signals numbered in enqueue order, the queue holds the
\* successors of the signal in hand in order, and orders rows are in enqueue
\* order and never ahead of the signal in hand.
C13_QueueInOrder ==
  LET l == loc["submit"] IN
  /\ \A i \in DOMAIN signal_queue : signal_queue[i].timestamp = InHand + i
  /\ \A i \in DOMAIN orders : \A j \in DOMAIN orders :
       i < j => orders[i].for_signal <= orders[j].for_signal
  /\ \A i \in DOMAIN orders : orders[i].for_signal <= l.sig.timestamp

\* C13, step part: the consumer moves to another signal only when its call for
\* the current one has ended, and then to the next one enqueued.
C13_OneAtATime ==
  (loc'["submit"].sig.timestamp # loc["submit"].sig.timestamp) =>
     /\ loc["submit"].pc \in {"idle", "done"}
     /\ loc'["submit"].sig.timestamp = loc["submit"].sig.timestamp + 1
     /\ loc'["submit"].places = 0

\* C13: signals taken from the queue are validated and submitted in FIFO order:
\* with a enqueued before b, the consumer starts on b only after a's validation
\* and placement have finished, so the place calls (orders rows) for queued
\* signals occur in enqueue order.  Signals are numbered in enqueue order.
C13_FifoSubmission == []C13_QueueInOrder /\ [][C13_OneAtATime]_vars

\* two queued signals were each placed, the first before the second
C13_Witness ==
  /\ Len(orders) >= 2
  /\ orders[1].for_signal = 1
  /\ orders[Len(orders)].for_signal = 2
  /\ loc["submit"].pc = "done"

\* the gate refused the signal of coroutine locals l
GateRejected(l) ==
  l.gate = "closed" \/ l.vres \in {"position", "order_value", "daily_loss"}

\* C14: when the validation gate rejects a signal (market closed, risk cap
\* exceeded, daily loss limit reached), handling it, failure path included,
\* invokes no broker order operation: neither place nor cancel, whatever the
\* active-order map holds.
C14_RejectionContactsNoBroker ==
  LET l == loc["submit"] IN
  GateRejected(l) => (l.places = 0 /\ l.pc # "cancel" /\ l.cancel_id = 0)

\* C15, state part: a first place call follows a validation above the loss
\* limit; a signal rejected for the daily loss is never placed and is recorded.
C15_LossLimitGate ==
  LET l == loc["submit"] IN
  /\ (l.pc = "place" /\ l.places = 0) => daily_pnl * 100 > -(2 * l.pv)
  /\ (l.places > 0) => l.vres = "ok"
  /\ (l.vres = "daily_loss") =>
        /\ daily_pnl * 100 <= -(2 * l.pv)
        /\ l.places = 0
        /\ l.pc \in {"cancel", "done"}
        /\ RowsOf(l.sig.timestamp) # {}

\* C15, step part: daily_pnl changes only after a poll that saw the order
\* filled, to a value reported by the account.
C15_PnlOnlyOnFill ==
  (daily_pnl' # daily_pnl) =>
     /\ loc["submit"].pc = "pnl"
     /\ orders[loc["submit"].oid].status = "filled"
     /\ daily_pnl' \in env.pnl_values

\* C15: whenever daily_pnl is at or below -(0.02 x portfolio_value) at
\* validation time the signal is rejected: no place call is made for it and it
\* goes to the failure path; daily_pnl changes only when an order is observed
\* filled, and then takes the account's equity - last_equity.
C15_DailyLossLimit == []C15_LossLimitGate /\ [][C15_PnlOnlyOnFill]_vars

\* after a fill showed a loss of 2000 on a portfolio of 100000 (exactly the
\* limit) the next signal was rejected for the daily loss and recorded
C15_Witness ==
  LET l == loc["submit"] IN
  /\ l.pc = "done"
  /\ l.vres = "daily_loss"
  /\ daily_pnl = -2000
  /\ l.pv = 100000
  /\ l.places = 0
  /\ l.sig.timestamp = 2

\* C17: every failure outcome of a signal handed to execute_trade_signal (gate
\* rejection, placement retries exhausted, error while polling, poll budget
\* exhausted) adds at least one failure row for it (failed_trades; the engine
\* itself never writes error_log), and a signal never ends with no orders row
\* and no failure row.
C17_NothingDropped ==
  LET l == loc["submit"] IN
  (l.pc = "done") =>
     /\ (GateRejected(l) \/ l.vres = "error" \/ l.result = "raised" \/ l.timedout) =>
           RowsOf(l.sig.timestamp) # {}
     /\ OrdersOf(l.sig.timestamp) # {} \/ RowsOf(l.sig.timestamp) # {}

\* C18: when the poll budget is exhausted with the order still non-terminal,
\* the order keeps its non-terminal status in the ledger, the submission is not
\* reported as successful, and no failed_trades row is created for it.
C18_TimeoutIsNotSuccess ==
  LET l == loc["submit"] IN
  (l.pc = "done" /\ l.timedout) =>
     /\ \E i \in OrdersOf(l.sig.timestamp) : orders[i].status = "new"
     /\ l.result # "success"
     /\ RowsOf(l.sig.timestamp) = {}

----------------------------------------------------------------------------
(* Properties: order status polling *)

TerminalOrderStatuses == {"filled", "canceled", "rejected"}

\* coroutine t writes a broker status answer for order i to the ledger in this step
StatusWritten(t, i) ==
  /\ loc[t].oid = i
  /\ \/ /\ loc[t].pc = "poll"
        /\ loc[t].polls < MaxPolls
        /\ loc'[t] # loc[t]
        /\ loc'[t].fails = loc[t].fails
     \/ /\ loc[t].pc = "final"
        /\ loc'[t].polls = loc[t].polls + 1

\* C19, state part: check_order_status makes at most 10 queries, and it only
\* queries an order whose recorded status is not terminal.
C19_PollBudget ==
  \A t \in Runners :
    (loc[t].pc = "poll") =>
       /\ loc[t].polls <= MaxPolls
       /\ (loc[t].polls < MaxPolls) =>
             orders[loc[t].oid].status \notin TerminalOrderStatuses

\* C19, step part: once a terminal status is recorded for an order, no status
\* answer is written for it again and its ledger status stays as it is.
C19_TerminalIsFinal ==
  \A i \in DOMAIN orders :
    (orders[i].status \in TerminalOrderStatuses) =>
       /\ orders'[i].status = orders[i].status
       /\ \A t \in Tasks : ~StatusWritten(t, i)

\* C19: check_order_status queries the broker at most 10 times per order,
\* writes each status to the ledger and stops at the first terminal status;
\* after a terminal status is recorded for an order no further status query or
\* ledger update is made for it, so its ledger status never changes again.
C19_TerminalStatusStops == []C19_PollBudget /\ [][C19_TerminalIsFinal]_vars

----------------------------------------------------------------------------
(* Properties: the recovery pass *)

\* C20: within one recovery pass a failure while recovering one record (a
\* rejected re-validation, a placement error, an error while updating the
\* record's status) never keeps the remaining selected records of the pass
\* from being attempted: the list of selected records only ever loses its head,
\* to the attempt on that record.
C20_EverySelectedRecordAttempted ==
  [][(recovery_list # <<>> /\ recovery_list' # recovery_list) =>
        /\ recovery_list' = Tail(recovery_list)
        /\ loc'["recovery"].pc = "validate"
        /\ loc'["recovery"].row = Head(recovery_list).id]_vars

----------------------------------------------------------------------------
(* Properties: shutdown *)

\* C21: after shutdown() has returned the periodic recovery task (run_recovery)
\* performs no further recovery pass: it is not waiting for its next pass and
\* it has started no pass since shutdown() returned.
C21_NoPassAfterShutdown ==
  /\ loc["scheduler"].result # "late"
  /\ (loc["shutdown"].pc = "done") => loc["scheduler"].pc # "sleep"

\* shutdown() has returned on an engine whose recovery task was started and
\* whose ledger still holds a row a recovery pass would select
C21_Witness ==
  /\ loc["shutdown"].pc = "done"
  /\ loc["shutdown"].via = "shutdown"
  /\ loc["scheduler"].pc = "done"
  /\ get_pending_failed_trades(failed_trades, max_retries) # <<>>

\* C22: during shutdown(), for every order that is in the active-order map
\* when shutdown() is called, the engine requests the order's final status from
\* the broker before the broker client connection is closed.
C22_TrackedOrdersFinalized ==
  clientClosed => loc["shutdown"].tracked \subseteq loc["shutdown"].asked

\* C23, state part: shutdown() on an engine that never received a signal ends
\* with an empty queue, an empty active-order map and no failed_trades row; and
\* after a second call the queue and the active-order map are empty.
C23_StateAfterShutdown ==
  LET l == loc["shutdown"] IN
  /\ (l.pc = "done" /\ created = 0) =>
        /\ signal_queue = <<>>
        /\ active_orders = NoActiveOrders
        /\ failed_trades = <<>>
  /\ (l.pc = "done" /\ l.via = "shutdown2") =>
        /\ signal_queue = <<>>
        /\ active_orders = NoActiveOrders

\* C23, step part: no step of a second shutdown() call changes the queue, the
\* active-order map or the ledger.
C23_SecondCallChangesNothing ==
  (loc'["shutdown"] # loc["shutdown"] /\ loc'["shutdown"].via = "shutdown2") =>
     /\ signal_queue' = signal_queue
     /\ active_orders' = active_orders
     /\ failed_trades' = failed_trades
     /\ orders' = orders

\* C23: shutdown() is idempotent and safe without a prior enqueue: on an
\* engine that never received a signal, or called a second time after a
\* completed shutdown, it leaves the state of a single call (queue empty,
\* active-order map empty, no additional failed_trades rows).
C23_ShutdownIdempotent ==
  []C23_StateAfterShutdown /\ [][C23_SecondCallChangesNothing]_vars

----------------------------------------------------------------------------
(* Properties: TradeSignal *)

\* the constraints of a TradeSignal instance
WellFormed(s) ==
  /\ s.signal_type \in {"BUY", "SELL"}
  /\ s.order_type \in {"market", "limit", "stop"}
  /\ s.time_in_force \in {"day", "gtc", "opg", "cls", "ioc", "fok"}
  /\ (s.order_type = "limit") => s.limit_price # None
  /\ (s.order_type = "stop") => s.stop_price # None

\* C25: every TradeSignal construction with order kind 'limit' and no
\* limit_price fails, and so does every one with kind 'stop' and no stop_price, a
\* side outside {BUY, SELL}, an order kind outside {market, limit, stop} or a
\* time-in-force outside the six allowed values; so every constructed instance,
\* also one rebuilt by from_dict, satisfies these constraints.
C25_ConstructionValidates ==
  \A t \in {"producer", "from_dict"} :
    (loc[t].pc = "done") =>
       /\ (loc[t].result = "constructed") <=> WellFormed(loc[t].sig)
       /\ (loc[t].result = "ValueError") <=> ~WellFormed(loc[t].sig)

\* a limit order without limit_price was refused, by the constructor and by
\* from_dict
C25_Witness ==
  /\ loc["producer"].result = "ValueError"
  /\ loc["producer"].sig.order_type = "limit"
  /\ loc["producer"].sig.limit_price = None
  /\ loc["producer"].err = "limit_price"
  /\ loc["from_dict"].result = "ValueError"

\* the signals the producers of this run construct
Originals == {TradeSignal(k, ts) : k \in env.kinds, ts \in 1..MaxSignals}

\* C24: TradeSignal serialization round-trips: from_dict(to_dict(s)) equals s
\* in every field for every valid signal s, so the signal the recovery task
\* rebuilds from a failed_trades row equals the signal the producer originally
\* created.
C24_RoundTrip ==
  /\ \A s \in Originals : from_dict(to_dict(s)) = s
  /\ \A i \in DOMAIN failed_trades :
       from_dict(failed_trades[i].trade_signal) \in Originals

\* C26: a TradeSignal is immutable after construction: the signal a coroutine
\* of the engine holds while it validates, places or records it has the field
\* values it was constructed with.
C26_SignalsImmutable ==
  \A t \in Workers :
    (loc[t].pc # "idle") => loc[t].sig \in Originals

----------------------------------------------------------------------------
(* Properties: active-order tracking *)

\* C27: when a signal fails, handle_failed_trade requests cancellation only of
\* an order that was placed for that signal itself, never of an order placed
\* for another signal (of the same strategy id or not) and never of an order
\* that has already reached a terminal status.
C27_CancelsOwnOrderOnly ==
  \A t \in Tasks :
    (loc[t].cancel_id # 0) =>
       /\ orders[loc[t].cancel_id].for_signal = loc[t].sig.timestamp
       /\ (loc[t].pc = "cancel") =>
             orders[loc[t].cancel_id].status \notin TerminalOrderStatuses

----------------------------------------------------------------------------
(* Properties: placement *)

\* C28: in one call of execute_trade_with_recovery, whatever the broker does
\* during placement and status polling, the broker accepts at most one order
\* for the signal: once place_order_async has returned an order no further
\* place_order_async call is made for the signal, and at most one orders row is
\* added for it.
C28_AtMostOneOrderPerSignal ==
  \A t \in Runners :
    /\ loc[t].oks <= 1
    /\ (loc[t].oks = 1) => (loc[t].pc # "place" /\ ~loc[t].relapse)

----------------------------------------------------------------------------
(* Properties: order monitoring *)

\* C29: order monitoring does not block the queue consumer: while the order
\* placed for a queued signal is still being polled and another signal waits in
\* the queue, the consumer can dequeue that signal and start on it.
C29_MonitoringDoesNotBlock ==
  (loc["submit"].pc = "poll" /\ loc["consumer"].pc = "get" /\ signal_queue # <<>>)
    => ENABLED Dequeue

----------------------------------------------------------------------------
(* Properties: the recovery pass leaves the number of records alone *)

\* a step in which the recovery task or a pass of _recover_failed_trades acts
RecoveryStep ==
  loc'["recovery"] # loc["recovery"] \/ recovery_list' # recovery_list

\* the rows a recovery step may write: the row being recovered and the next
\* fetched row, both selected by the pass
SelectedNow ==
  {loc["recovery"].row} \cup
  (IF recovery_list # <<>> THEN {Head(recovery_list).id} ELSE {})

C30_StepInsertsNoRow ==
  RecoveryStep =>
    /\ Len(failed_trades') = Len(failed_trades)
    /\ \A i \in DOMAIN failed_trades :
         failed_trades'[i] # failed_trades[i] => i \in SelectedNow

\* C30: a recovery pass never inserts a failed_trades row: however each attempt
\* ends (resolved, re-validation rejected, placement retries exhausted,
\* undecodable signal), it only updates rows the pass selected, so the table has
\* as many rows after the pass as before it.
C30_PassInsertsNoRow ==
  [](Len(failed_trades) = created) /\ [][C30_StepInsertsNoRow]_vars

\* a pass is over in which one record was resolved or given up, and an
\* undecodable record was counted as a retry
C30_Witness ==
  /\ recovery_list = <<>>
  /\ loc["recovery"].pc = "done"
  /\ Len(failed_trades) = MaxRows
  /\ \E i, j \in DOMAIN failed_trades :
       /\ Decodes(failed_trades[i].trade_signal)
       /\ failed_trades[i].retry_count > 0
       /\ failed_trades[i].status \in {"resolved", "failed"}
       /\ ~Decodes(failed_trades[j].trade_signal)
       /\ failed_trades[j].retry_count > 0

============================================================================
